---- MODULE Spec2Model ----
(***************************************************************************)
(* pxd - Universal Tag System.  Model of the Worker (the D1 schema and the *)
(* fetch handler) as a state machine: the two tables are the shared state, *)
(* every `await env.DB...` statement of a handler is one atomic step, and  *)
(* several requests may be in flight at once.                              *)
(*                                                                         *)
(* Text (paths, ids, names, queries) is a sequence of one-character        *)
(* strings, so that startsWith, slice, split and the route patterns are    *)
(* computed on the characters as the code computes them.                   *)
(***************************************************************************)
EXTENDS Integers, Sequences, FiniteSets, TLC

VARIABLES tags, links, linkSeq, clock, pc, loc, last, issued, cache, cli, out

vars == <<tags, links, linkSeq, clock, pc, loc, last, issued, cache, cli, out>>

(***************************************************************************)
(* Bounds of the model.                                                    *)
(***************************************************************************)
\* number of requests that can be in flight at once
NumReqs == 2
\* number of distinct outcomes of Math.random() the id generator can draw
NumIds == 2
\* largest value of Date.now()
MaxClock == 1
\* largest AUTOINCREMENT id the links table hands out: under concurrent load,
\* and when requests are answered one at a time
MaxLinks == 1

GateMaxLinks == 2
\* largest number of tags of the stores that are searched and listed
MaxTags == 101
\* the tags of those stores that can have been updated: tags 1..MaxTie
MaxTie == 3

Reqs == 1..NumReqs

(***************************************************************************)
(* Text helpers.                                                           *)
(***************************************************************************)
LowerChars ==
  { "a","b","c","d","e","f","g","h","i","j","k","l","m",
    "n","o","p","q","r","s","t","u","v","w","x","y","z" }

DigitChars == { "0","1","2","3","4","5","6","7","8","9" }

\* String.prototype.startsWith
StartsWith(s, p) == Len(s) >= Len(p) /\ SubSeq(s, 1, Len(p)) = p

\* String.prototype.slice(n), n >= 0
Slice(s, n) == SubSeq(s, n + 1, Len(s))

\* positions of the '/' characters of s
SlashAt(s) == { i \in 1..Len(s) : s[i] = "/" }

\* String.prototype.split('/'): the pieces between consecutive slashes
RECURSIVE SplitFrom(_, _)
SplitFrom(s, from) ==
  LET rest == { i \in SlashAt(s) : i >= from } IN
  IF rest = {} THEN << SubSeq(s, from, Len(s)) >>
  ELSE LET nxt == CHOOSE i \in rest : \A j \in rest : i <= j
       IN  << SubSeq(s, from, nxt - 1) >> \o SplitFrom(s, nxt + 1)

Split(s) == SplitFrom(s, 1)

\* a non-empty run of characters of the class cls: the pattern [cls]+
Plus(s, cls) == Len(s) >= 1 /\ \A i \in 1..Len(s) : s[i] \in cls

(***************************************************************************)
(* ID generation: px[a-z2-9]{7}                                            *)
(***************************************************************************)
\* a charset that has the letter l in the place of m
CHARSETWithL ==
  << "a","b","c","d","e","f","g","h","i","j","k","l","n","p","q","r",
     "s","t","u","v","w","x","y","z","2","3","4","5","6","7","8","9" >>

CHARSET ==
  << "a","b","c","d","e","f","g","h","i","j","k","m","n","p","q","r",
     "s","t","u","v","w","x","y","z","2","3","4","5","6","7","8","9" >>

IdLength == 7

\* picks[i] is Math.floor(Math.random() * CHARSET.length) of the i-th character
generateId(picks) ==
  << "p", "x" >> \o [ i \in 1..IdLength |-> CHARSET[picks[i] + 1] ]

\* the outcomes of the random draws the model explores
Picks == { [ i \in 1..IdLength |-> IF i = IdLength THEN k ELSE 0 ] : k \in 0..(NumIds - 1) }

IdSpace == { generateId(p) : p \in Picks }

\* draws that bring every character of CHARSET to every place of an id: all
\* draws equal, or all 0 but one
AllPicks ==
  { [ i \in 1..IdLength |-> k ] : k \in 0..(Len(CHARSET) - 1) }
    \cup { [ i \in 1..IdLength |-> IF i = place THEN k ELSE 0 ] :
             place \in 1..IdLength, k \in 0..(Len(CHARSET) - 1) }

(***************************************************************************)
(* Values carried by requests.  An optional value (a header, a JSON field, *)
(* a query parameter) is the empty set when absent and {v} when present.   *)
(***************************************************************************)
None == {}

Some(v) == { v }

Get(opt) == CHOOSE v \in opt : TRUE

\* JavaScript truthiness of an optional string: undefined, null and '' are falsy
Truthy(opt, empty) == opt # None /\ opt # Some(empty)

\* the configured secrets env.PXD_ADMIN_KEY and env.PXD_AGENT_KEY
PXD_ADMIN_KEY == "admin-secret"

PXD_AGENT_KEY == "agent-secret"

OtherKey == "other-secret"

Keys == { None, Some(PXD_ADMIN_KEY), Some(PXD_AGENT_KEY), Some(OtherKey) }

\* names and queries
EmptyText == << >>

NameX == << "E", "c" >>

NameY == << "h", "o" >>

QueryE == << "e" >>

\* link types and urls
TypeGithub == << "g", "h" >>

TypeCf == << "c", "f" >>

Types == { TypeGithub, TypeCf }

Url1 == "https://github.com/x/echo"

\* meta objects: a set of <<key, value>> pairs
EmptyObject == {}

Object1 == { << "k", 1 >> }

Objects == { EmptyObject, Object1 }

JSONstringify(o) == IF o = EmptyObject THEN "{}" ELSE "{\"k\":1}"

\* a decoder that answers the other object
JSONparseOther(s) == IF s = "{}" THEN Object1 ELSE EmptyObject

JSONparse(s) == IF s = "{}" THEN EmptyObject ELSE Object1

(***************************************************************************)
(* Paths.                                                                  *)
(***************************************************************************)
PathHealth == << "/", "h", "e", "a", "l", "t", "h" >>

PathId == << "/", "i", "d" >>

PathIdSlash == << "/", "i", "d", "/" >>

PathSearch == << "/", "s", "e", "a", "r", "c", "h" >>

PathList == << "/", "l", "i", "s", "t" >>

PathOther == << "/", "x" >>

SegLink == << "l", "i", "n", "k" >>

PathTag(id) == PathIdSlash \o id

PathLink(id) == PathIdSlash \o id \o << "/" >> \o SegLink

PathLinkType(id, type) == PathLink(id) \o << "/" >> \o type

\* path.match(/^\/id\/[a-z0-9]+\/link$/)
MatchesLink(path) ==
  LET parts == Split(path) IN
  /\ Len(parts) = 4
  /\ parts[1] = << >>
  /\ parts[2] = << "i", "d" >>
  /\ Plus(parts[3], LowerChars \cup DigitChars)
  /\ parts[4] = SegLink

\* path.match(/^\/id\/[a-z0-9]+\/link\/[a-z]+$/)
MatchesLinkType(path) ==
  LET parts == Split(path) IN
  /\ Len(parts) = 5
  /\ parts[1] = << >>
  /\ parts[2] = << "i", "d" >>
  /\ Plus(parts[3], LowerChars \cup DigitChars)
  /\ parts[4] = SegLink
  /\ Plus(parts[5], LowerChars)

(***************************************************************************)
(* Authorization gate and routing.                                         *)
(***************************************************************************)
\* the agent secret taken for the admin secret
getRoleAgentAsAdmin(key) ==
  IF ~Truthy(key, "") THEN "none"
  ELSE IF Get(key) = PXD_ADMIN_KEY \/ Get(key) = PXD_AGENT_KEY THEN "admin"
  ELSE "none"

\* every credential that is not the admin secret taken for the agent secret
getRoleAnyKeyAsAgent(key) ==
  IF ~Truthy(key, "") THEN "none"
  ELSE IF Get(key) = PXD_ADMIN_KEY THEN "admin"
  ELSE "agent"

\* the agent secret compared first
getRoleAgentFirst(key, env) ==
  IF ~Truthy(key, "") THEN "none"
  ELSE IF Get(key) = env.PXD_AGENT_KEY THEN "agent"
  ELSE IF Get(key) = env.PXD_ADMIN_KEY THEN "admin"
  ELSE "none"

\* getRole(request, env), key being request.headers.get('X-PXD-Key')
getRoleOf(key, env) ==
  IF ~Truthy(key, "") THEN "none"
  ELSE IF Get(key) = env.PXD_ADMIN_KEY THEN "admin"
  ELSE IF Get(key) = env.PXD_AGENT_KEY THEN "agent"
  ELSE "none"

\* the environment of the deployment
Env == [ PXD_ADMIN_KEY |-> PXD_ADMIN_KEY, PXD_AGENT_KEY |-> PXD_AGENT_KEY ]

getRole(key) == getRoleOf(key, Env)

\* the chain of `if (method === ... && path ...)` of fetch, in the order of the code
Route(method, path) ==
  IF method = "POST" /\ path = PathId THEN "create"
  ELSE IF method = "GET" /\ StartsWith(path, PathIdSlash) THEN "get"
  ELSE IF method = "PUT" /\ StartsWith(path, PathIdSlash) THEN "update"
  ELSE IF method = "DELETE" /\ StartsWith(path, PathIdSlash) THEN "deleteTag"
  ELSE IF method = "POST" /\ MatchesLink(path) THEN "addLink"
  ELSE IF method = "DELETE" /\ MatchesLinkType(path) THEN "removeLink"
  ELSE IF method = "GET" /\ path = PathSearch THEN "search"
  ELSE IF method = "GET" /\ path = PathList THEN "list"
  ELSE "notFound"

\* the bodies of create and add-link validated before the credential is looked at
DispatchValidatingFirst(rq) ==
  IF rq.path = PathHealth THEN "health"
  ELSE IF Route(rq.method, rq.path) \in { "create", "addLink" }
  THEN Route(rq.method, rq.path)
  ELSE IF getRole(rq.key) = "none" THEN "unauthorized"
  ELSE Route(rq.method, rq.path)

\* what fetch does with a request before any body is read: the public health
\* check, the Unauthorized answer, or the handler the request is routed to
Dispatch(rq) ==
  IF rq.path = PathHealth THEN "health"
  ELSE IF getRole(rq.key) = "none" THEN "unauthorized"
  ELSE Route(rq.method, rq.path)

(***************************************************************************)
(* The requests the model sends.                                           *)
(***************************************************************************)
NoBody == [ name |-> None, meta |-> None, type |-> None, url |-> None ]

Request(key, method, path, body, q) ==
  [ key |-> key, method |-> method, path |-> path, body |-> body, q |-> q ]

CreateBody(name, meta) == [ NoBody EXCEPT !.name = name, !.meta = meta ]

UpdateBody(name, meta) == [ NoBody EXCEPT !.name = name, !.meta = meta ]

LinkBody(type, url) == [ NoBody EXCEPT !.type = type, !.url = url ]

\* the requests with a credential of K, the bodies CB of POST /id, UB of
\* PUT /id/:id and LB of POST /id/:id/link, about the ids of IdSpace
RequestsOf(K, CB, UB, LB) ==
  { Request(k, "GET", PathHealth, NoBody, None) : k \in K }
    \cup { Request(k, "POST", PathId, b, None) : k \in K, b \in CB }
    \cup { Request(k, "GET", PathTag(id), NoBody, None) : k \in K, id \in IdSpace }
    \cup { Request(k, "PUT", PathTag(id), b, None) : k \in K, id \in IdSpace, b \in UB }
    \cup { Request(k, "DELETE", PathTag(id), NoBody, None) : k \in K, id \in IdSpace }
    \cup { Request(k, "POST", PathLink(id), b, None) : k \in K, id \in IdSpace, b \in LB }
    \cup { Request(k, "DELETE", PathLinkType(id, t), NoBody, None) :
             k \in K, id \in IdSpace, t \in Types }
    \cup { Request(k, "GET", PathSearch, NoBody, q) : k \in K, q \in { None, Some(QueryE) } }
    \cup { Request(k, "GET", PathList, NoBody, None) : k \in K }
    \cup { Request(k, "GET", PathOther, NoBody, None) : k \in K }

NoRequest == Request(None, "", << >>, NoBody, None)

\* the requests of a load that only reaches the statements: admin credential,
\* valid bodies, the paths of tags and links
StoreRequests ==
  { rq \in RequestsOf({ Some(PXD_ADMIN_KEY) },
                      { CreateBody(Some(NameX), None) },
                      { UpdateBody(Some(NameY), None) },
                      { LinkBody(Some(t), Some(Url1)) : t \in Types }) :
      rq.path \notin { PathHealth, PathSearch, PathList, PathOther } }

\* every kind of request with every credential
GateRequests ==
  RequestsOf(Keys,
             { CreateBody(None, None), CreateBody(Some(EmptyText), None),
               CreateBody(Some(NameX), None) },
             { UpdateBody(Some(NameY), None) },
             { LinkBody(Some(t), Some(Url1)) : t \in Types }
               \cup { LinkBody(None, Some(Url1)), LinkBody(Some(TypeGithub), None) })

\* creates, reads, updates and deletes of tags by agents and admins
ClockRequests ==
  { rq \in RequestsOf({ Some(PXD_ADMIN_KEY), Some(PXD_AGENT_KEY) },
                      { CreateBody(Some(NameX), None),
                        CreateBody(Some(NameY), Some(Object1)) },
                      { UpdateBody(Some(NameY), None),
                        UpdateBody(Some(EmptyText), None),
                        UpdateBody(None, Some(Object1)) },
                      {}) :
      /\ rq.path \notin { PathHealth, PathSearch, PathList, PathOther }
      /\ rq.method # "POST" \/ rq.path = PathId }

\* creates of tags and links of one type by an agent
LinkRequests ==
  { rq \in RequestsOf({ Some(PXD_AGENT_KEY) },
                      { CreateBody(Some(NameX), None) },
                      {},
                      { LinkBody(Some(TypeGithub), Some(Url1)) }) :
      rq.method = "POST" }

\* every kind of request with every credential, the empty one included
RoleRequests ==
  RequestsOf(Keys \cup { Some("") },
             { CreateBody(Some(NameX), None) },
             { UpdateBody(Some(NameY), None) },
             { LinkBody(Some(TypeGithub), Some(Url1)) })

\* the environments: each secret is one of two strings
Envs ==
  [ PXD_ADMIN_KEY : { PXD_ADMIN_KEY, PXD_AGENT_KEY },
    PXD_AGENT_KEY : { PXD_ADMIN_KEY, PXD_AGENT_KEY } ]

\* searches and listings by an agent
QueryRequests ==
  { rq \in GateRequests :
      rq.key = Some(PXD_AGENT_KEY) /\ rq.path \in { PathSearch, PathList } }

(***************************************************************************)
(* The command lines of the CLI and the requests they send.                *)
(***************************************************************************)
\* process.env.PXD_KEY || config.admin_key || config.agent_key || ''
getKey(config) ==
  IF Truthy(config.PXD_KEY, "") THEN Get(config.PXD_KEY)
  ELSE IF Truthy(config.admin_key, "") THEN Get(config.admin_key)
  ELSE IF Truthy(config.agent_key, "") THEN Get(config.agent_key)
  ELSE ""

\* ...(key ? { 'X-PXD-Key': key } : {})
KeyHeader(config) == IF getKey(config) # "" THEN Some(getKey(config)) ELSE None

Config(PXD_KEY, admin_key, agent_key) ==
  [ PXD_KEY |-> PXD_KEY, admin_key |-> admin_key, agent_key |-> agent_key ]

\* the configurations of the client: the admin's key in the config file, or no key
Configs == { Config(None, Some(PXD_ADMIN_KEY), None), Config(None, None, None) }

\* a command line: the command, its arguments and the configuration it runs with
Command(cmd, id, name, query, config) ==
  [ cmd |-> cmd, id |-> id, name |-> name, type |-> TypeGithub, url |-> Url1,
    query |-> query, config |-> config ]

NoCommand == Command("none", << >>, None, << >>, Config(None, None, None))

Commands ==
  UNION { { Command("new", << >>, n, << >>, c) : n \in { None, Some(NameX) } }
            \cup { Command(cmd, id, None, << >>, c) :
                     cmd \in { "show", "link", "delete" }, id \in IdSpace }
            \cup { Command("search", << >>, None, QueryE, c) }
            \cup { Command(cmd, << >>, None, << >>, c) : cmd \in { "list", "sync" } } :
          c \in Configs }

\* the request api(config, method, path, body) sends for a command
ApiRequest(c) ==
  LET key == KeyHeader(c.config) IN
  CASE c.cmd = "new" ->
         Request(key, "POST", PathId,
                 CreateBody(Some(IF Truthy(c.name, EmptyText) THEN Get(c.name)
                                 ELSE EmptyText),
                            None),
                 None)
    [] c.cmd = "show" -> Request(key, "GET", PathTag(c.id), NoBody, None)
    [] c.cmd = "link" ->
         Request(key, "POST", PathLink(c.id), LinkBody(Some(c.type), Some(c.url)), None)
    [] c.cmd = "search" -> Request(key, "GET", PathSearch, NoBody, Some(c.query))
    [] c.cmd \in { "list", "sync" } -> Request(key, "GET", PathList, NoBody, None)
    [] c.cmd = "delete" -> Request(key, "DELETE", PathTag(c.id), NoBody, None)

CliRequests == { ApiRequest(c) : c \in Commands }

\* the commands of a client with the admin's key that never deletes
StampCommands ==
  { c \in Commands : /\ c.config = Config(None, Some(PXD_ADMIN_KEY), None)
                     /\ c.cmd \in { "new", "show", "link", "list" }
                     /\ c.cmd = "new" => c.name # None }

(***************************************************************************)
(* The CLI without a cache, src/cli/pxd.ts: its own getKey and api.  The   *)
(* method, path and body of each command are those of the CLI above.       *)
(***************************************************************************)
\* config.admin_key || config.agent_key || process.env.PXD_KEY || ''
PxdGetKey(config) ==
  IF Truthy(config.admin_key, "") THEN Get(config.admin_key)
  ELSE IF Truthy(config.agent_key, "") THEN Get(config.agent_key)
  ELSE IF Truthy(config.PXD_KEY, "") THEN Get(config.PXD_KEY)
  ELSE ""

\* ...(key ? { 'X-PXD-Key': key } : {})
PxdKeyHeader(config) == IF PxdGetKey(config) # "" THEN Some(PxdGetKey(config)) ELSE None

PxdApiRequest(c) == [ ApiRequest(c) EXCEPT !.key = PxdKeyHeader(c.config) ]

\* environments and config files: PXD_KEY unset, empty or set, with and
\* without each key of the config file
CallConfigs ==
  { Config(e, a, g) : e \in { None, Some(""), Some(OtherKey) },
                      a \in { None, Some(PXD_ADMIN_KEY) },
                      g \in { None, Some(PXD_AGENT_KEY) } }

\* the commands of both programs: new with a name, show, list
CallCommands ==
  UNION { { Command("new", << >>, Some(NameX), << >>, c) }
            \cup { Command("show", id, None, << >>, c) : id \in IdSpace }
            \cup { Command("list", << >>, None, << >>, c) } :
          c \in CallConfigs }

CallRequests ==
  { ApiRequest(c) : c \in CallCommands } \cup { PxdApiRequest(c) : c \in CallCommands }

Requests ==
  StoreRequests \cup GateRequests \cup ClockRequests \cup LinkRequests
    \cup CliRequests \cup CallRequests

\* where fetch sends each request: Dispatch, evaluated once per request
Handler == [ rq \in Requests |-> Dispatch(rq) ]

Handlers ==
  { "health", "unauthorized", "create", "get", "update", "deleteTag",
    "addLink", "removeLink", "search", "list", "notFound" }

\* the requests of a load, by the handler fetch sends them to
StoreSent == [ h \in Handlers |-> { rq \in StoreRequests : Handler[rq] = h } ]
GateSent == [ h \in Handlers |-> { rq \in GateRequests : Handler[rq] = h } ]
ClockSent == [ h \in Handlers |-> { rq \in ClockRequests : Handler[rq] = h } ]
LinkSent == [ h \in Handlers |-> { rq \in LinkRequests : Handler[rq] = h } ]
QuerySent == [ h \in Handlers |-> { rq \in QueryRequests : Handler[rq] = h } ]

AdminOnly == { "update", "deleteTag", "removeLink" }
Validated == { "create", "addLink" }
Deleting == { "deleteTag", "removeLink" }
To(Sent, H) == UNION { Sent[h] : h \in H }

(***************************************************************************)
(* The D1 schema: tables tags and links and their constraints.             *)
(***************************************************************************)
TagRow(id, name, meta, created_at, updated_at) ==
  [ id |-> id, name |-> name, meta |-> meta,
    created_at |-> created_at, updated_at |-> updated_at ]

LinkRow(id, tag_id, type, url, created_at) ==
  [ id |-> id, tag_id |-> tag_id, type |-> type, url |-> url,
    created_at |-> created_at ]

\* SELECT ... FROM tags WHERE id = ?
SelectTag(T, id) == { t \in T : t.id = id }

\* SELECT type, url FROM links WHERE tag_id = ?   (in rowid order)
LinksOf(L, id) == { l \in L : l.tag_id = id }

\* the table without its primary key: every INSERT is accepted
NoPrimaryKey(T, id) == TRUE

\* id TEXT PRIMARY KEY: an INSERT of a row whose id is in the table is rejected
PrimaryKeyOk(T, id) == SelectTag(T, id) = {}

\* the foreign key not enforced: every INSERT into links is accepted
NoForeignKey(T, tag_id) == TRUE

\* FOREIGN KEY (tag_id) REFERENCES tags(id): an INSERT into links is rejected
\* unless the tag exists
ForeignKeyOk(T, tag_id) == SelectTag(T, tag_id) # {}

\* the foreign key without its cascade: the links of a deleted tag stay
NoCascade(L, Gone) == L

\* ON DELETE CASCADE: the links left once the tags of Gone are deleted
Cascade(L, Gone) == { l \in L : l.tag_id \notin Gone }

\* DELETE FROM tags WHERE id = ?
DeleteFromTags(T, id) == T \ SelectTag(T, id)

\* DELETE FROM links WHERE tag_id = ? AND type = ?
DeleteFromLinks(L, id, type) == { l \in L : ~(l.tag_id = id /\ l.type = type) }

(***************************************************************************)
(* Queries of /search and /list.                                           *)
(***************************************************************************)
UpperLetters ==
  << "A","B","C","D","E","F","G","H","I","J","K","L","M",
     "N","O","P","Q","R","S","T","U","V","W","X","Y","Z" >>

LowerLetters ==
  << "a","b","c","d","e","f","g","h","i","j","k","l","m",
     "n","o","p","q","r","s","t","u","v","w","x","y","z" >>

\* LIKE folds the case of ASCII letters
Fold(c) ==
  IF \E i \in 1..26 : UpperLetters[i] = c
  THEN LowerLetters[CHOOSE i \in 1..26 : UpperLetters[i] = c]
  ELSE c

\* name LIKE '%q%'
Like(name, q) ==
  \E i \in 0..(Len(name) - Len(q)) :
    \A j \in 1..Len(q) : Fold(name[i + j]) = Fold(q[j])

SearchLimit == 50

ListLimit == 100

\* ORDER BY updated_at DESC: every order of the rows of S that respects it (the
\* order of rows with the same updated_at is not specified).  Rows of one
\* updated_at come in any order; otherwise the rows updated at or after the
\* median updated_at come, in such an order, before the rows updated earlier.
RECURSIVE OrderedByUpdated(_)
OrderedByUpdated(S) ==
  LET stamps == { t.updated_at : t \in S } IN
  IF Cardinality(stamps) <= 1
  THEN { s \in [ 1..Cardinality(S) -> S ] :
           \A i, j \in 1..Cardinality(S) : i # j => s[i] # s[j] }
  ELSE LET mid == CHOOSE v \in stamps :
                    Cardinality({ w \in stamps : w < v }) = Cardinality(stamps) \div 2
       IN  { a \o b : a \in OrderedByUpdated({ t \in S : t.updated_at >= mid }),
                      b \in OrderedByUpdated({ t \in S : t.updated_at < mid }) }

\* the limit applied at the wrong end: the last n rows
LimitTail(s, n) == SubSeq(s, IF Len(s) < n THEN 1 ELSE Len(s) - n + 1, Len(s))

\* LIMIT n
Limit(s, n) == SubSeq(s, 1, IF Len(s) < n THEN Len(s) ELSE n)

\* links.results of GET /id/:id: type and url of the rows, in rowid order
RECURSIVE LinkResults(_)
LinkResults(S) ==
  IF S = {} THEN << >>
  ELSE LET l == CHOOSE x \in S : \A y \in S : x.id <= y.id
       IN  << [ type |-> l.type, url |-> l.url ] >> \o LinkResults(S \ { l })

(***************************************************************************)
(* State.                                                                  *)
(*   tags, links  the two tables                                           *)
(*   linkSeq      the AUTOINCREMENT counter of links                       *)
(*   clock        Date.now()                                               *)
(*   pc, loc      per request in flight: the statement it awaits and the   *)
(*                handler's local variables                                *)
(*   last         the request answered by the last step, with its response *)
(*   issued       history: the ids returned by successful creates so far,  *)
(*                in the specifications that record it                     *)
(*   cache        the cache file of the CLI                                *)
(*   cli          the command the CLI runs, with its request                *)
(*   out          how the last command of the CLI ended                    *)
(***************************************************************************)
MaxAttempts == 10

NoTag == {}

IdleLoc ==
  [ rq |-> NoRequest, id |-> << >>, attempts |-> 0, draws |-> 0,
    tag |-> NoTag, since |-> 0 ]

NoData == [ ok |-> FALSE ]

\* a response, with the request it answers; for a create, also the number of
\* ids its handler drew and the final value of its `attempts`; for a delete,
\* also the number of links its statement removed
Response(rq, status, data) ==
  [ rq |-> rq, status |-> status, data |-> data,
    draws |-> 0, attempts |-> 0, removed |-> 0 ]

NoLast == Response(NoRequest, 0, NoData)

Error(message) == [ error |-> message ]

Ok == [ ok |-> TRUE ]

(***************************************************************************)
(* The cache of the CLI.  The cache file holds { tags, updated_at }; the   *)
(* keys of `tags` keep their insertion order, so `tags` is a sequence of   *)
(* cached tags with distinct ids.  An optional field of a cached tag       *)
(* (meta, links) is None when the tag was stored without it.               *)
(***************************************************************************)
CachedTag(id, name, meta, links_, created_at, updated_at) ==
  [ id |-> id, name |-> name, meta |-> meta, links |-> links_,
    created_at |-> created_at, updated_at |-> updated_at ]

\* loadCache() of a missing or unreadable file
EmptyCache == [ tags |-> << >>, updated_at |-> 0 ]

\* saveCache(cache)
saveCache(C, now) == [ C EXCEPT !.updated_at = now ]

\* cache.tags[tag.id] = tag: an existing key keeps its place, a new one is last
SetTag(T, tag) ==
  IF \E i \in 1..Len(T) : T[i].id = tag.id
  THEN [ i \in 1..Len(T) |-> IF T[i].id = tag.id THEN tag ELSE T[i] ]
  ELSE Append(T, tag)

cacheSet(C, tag, now) == saveCache([ C EXCEPT !.tags = SetTag(@, tag) ], now)

\* delete cache.tags[id]
WithoutTag(T, id) == SelectSeq(T, LAMBDA t : t.id # id)

cacheDelete(C, id, now) == saveCache([ C EXCEPT !.tags = WithoutTag(@, id) ], now)

\* loadCache().tags[id], an optional cached tag
cacheGet(C, id) == { C.tags[i] : i \in { j \in 1..Len(C.tags) : C.tags[j].id = id } }

\* Object.values(tags).sort((a, b) => b.updated_at - a.updated_at): the sort is
\* stable, entry i comes after the entries updated later and after the earlier
\* entries updated at the same time
SortPlace(T, i) ==
  1 + Cardinality({ j \in 1..Len(T) :
                      \/ T[j].updated_at > T[i].updated_at
                      \/ T[j].updated_at = T[i].updated_at /\ j < i })

cacheAll(C) ==
  [ k \in 1..Len(C.tags) |->
      C.tags[CHOOSE i \in 1..Len(C.tags) : SortPlace(C.tags, i) = k] ]

\* String.prototype.toLowerCase and String.prototype.includes
toLowerCase(s) == [ i \in 1..Len(s) |-> Fold(s[i]) ]

Includes(s, q) ==
  \E i \in 0..(Len(s) - Len(q)) : SubSeq(s, i + 1, i + Len(q)) = q

\* what a command reads from the cache before it calls the service: the cached
\* tag of show (none or one), the cached matches of search, the cached tags of list
LocalRead(c, C) ==
  CASE c.cmd = "show" ->
         IF cacheGet(C, c.id) = {} THEN << >> ELSE << Get(cacheGet(C, c.id)) >>
    [] c.cmd = "search" ->
         SelectSeq(cacheAll(C),
                   LAMBDA t : Includes(toLowerCase(t.name), toLowerCase(c.query)))
    [] c.cmd \in { "list", "sync" } -> cacheAll(C)
    [] OTHER -> << >>

\* the result of api(): the response of the service, or status 0 with the
\* message of the AbortError or of the transport error
ApiResult(response) ==
  [ ok |-> response.status \in 200..299, status |-> response.status,
    data |-> response.data ]

ApiFailure(message) == [ ok |-> FALSE, status |-> 0, data |-> Error(message) ]

FailureMessages == { "Request timeout", "fetch failed" }

\* how a command ends: the status api() returned to it, its exit code, whether
\* what it shows comes from the cache, and what it shows (an error, a tag,
\* tags, an acknowledgement); `had` is history, the ids the cache held before
\* the command wrote to it
Ended(c, res, exit, from, data) ==
  [ cmd |-> c.cmd, id |-> c.id, status |-> res.status, exit |-> exit,
    from |-> from, data |-> data, had |-> {} ]

NoOut ==
  [ cmd |-> "none", id |-> << >>, status |-> 0, exit |-> 0, from |-> "none",
    data |-> NoData, had |-> {} ]

\* Object.keys(cache.tags)
CachedIds(C) == { C.tags[i].id : i \in 1..Len(C.tags) }

\* err(msg, json): the message is shown and the process exits with 1
err(c, res) == Ended(c, res, 1, "error", res.data)

\* the cached form of a tag of a search result and of a list result
FromSearch(t) == CachedTag(t.id, t.name, Some(t.meta), None, t.created_at, t.updated_at)

FromList(t) == CachedTag(t.id, t.name, None, None, t.created_at, t.updated_at)

\* for (const t of remoteTags) cacheSet(t)
RECURSIVE cacheSetAll(_, _, _)
cacheSetAll(C, remoteTags, now) ==
  IF remoteTags = << >> THEN C
  ELSE cacheSetAll(cacheSet(C, FromSearch(Head(remoteTags)), now), Tail(remoteTags), now)

\* for (const t of remoteTags) cache.tags[t.id] = t
RECURSIVE Merged(_, _)
Merged(T, remoteTags) ==
  IF remoteTags = << >> THEN T
  ELSE Merged(SetTag(T, FromList(Head(remoteTags))), Tail(remoteTags))

\* the loop of cmdList without `cache.tags = {}`: nothing is discarded
RebuiltKeeping(T, remoteTags) == Merged(T, remoteTags)

\* cache.tags = {}; for (const t of remoteTags) cache.tags[t.id] = t
Rebuilt(T, remoteTags) == Merged(<< >>, remoteTags)

\* the rest of a command once api() has returned res: the cache it leaves and
\* how it ends
cmdNew(c, res, C, now) ==
  IF ~res.ok THEN [ cache |-> C, out |-> err(c, res) ]
  ELSE LET tag == res.data IN
       [ cache |-> cacheSet(C, CachedTag(tag.id, tag.name, Some(tag.meta), Some(<< >>),
                                         tag.created_at, tag.created_at), now),
         out |-> Ended(c, res, 0, "remote", tag) ]

cmdShow(c, local, res, C, now) ==
  IF res.ok
  THEN LET tag == CachedTag(res.data.id, res.data.name, Some(res.data.meta),
                            Some(res.data.links), res.data.created_at,
                            res.data.updated_at)
       IN  [ cache |-> cacheSet(C, tag, now), out |-> Ended(c, res, 0, "remote", tag) ]
  ELSE IF local = << >> THEN [ cache |-> C, out |-> err(c, res) ]
  ELSE [ cache |-> C, out |-> Ended(c, res, 0, "cache", local[1]) ]

\* the cached tag with the link pushed onto its links
WithLink(tag, link, now) ==
  [ tag EXCEPT !.links = Some(Append(IF @ = None THEN << >> ELSE Get(@), link)),
               !.updated_at = now ]

\* cmdLink without its cache update
cmdLinkForgetting(c, res, C, now) ==
  IF ~res.ok THEN [ cache |-> C, out |-> err(c, res) ]
  ELSE [ cache |-> C, out |-> Ended(c, res, 0, "remote", [ ok |-> TRUE, id |-> c.id ]) ]

cmdLink(c, res, C, now) ==
  IF ~res.ok THEN [ cache |-> C, out |-> err(c, res) ]
  ELSE LET tag == cacheGet(C, c.id)
           link == [ type |-> c.type, url |-> c.url ]
       IN  [ cache |-> IF tag # {} THEN cacheSet(C, WithLink(Get(tag), link, now), now)
                       ELSE C,
             out |-> Ended(c, res, 0, "remote", [ ok |-> TRUE, id |-> c.id ]) ]

cmdSearch(c, local, res, C, now) ==
  IF res.ok
  THEN [ cache |-> cacheSetAll(C, res.data, now),
         out |-> Ended(c, res, 0, "remote", res.data) ]
  ELSE [ cache |-> C, out |-> Ended(c, res, 0, "cache", local) ]

cmdList(c, local, res, C, now) ==
  IF res.ok
  THEN [ cache |-> saveCache([ C EXCEPT !.tags = Rebuilt(@, res.data) ], now),
         out |-> Ended(c, res, 0, "remote", res.data) ]
  ELSE [ cache |-> C, out |-> Ended(c, res, 0, "cache", local) ]

\* cmdDelete with cacheDelete before the test of res.ok
cmdDeleteEager(c, res, C, now) ==
  [ cache |-> cacheDelete(C, c.id, now),
    out |-> IF ~res.ok THEN err(c, res)
            ELSE Ended(c, res, 0, "remote", [ ok |-> TRUE, deleted |-> c.id ]) ]

cmdDelete(c, res, C, now) ==
  IF ~res.ok THEN [ cache |-> C, out |-> err(c, res) ]
  ELSE [ cache |-> cacheDelete(C, c.id, now),
         out |-> Ended(c, res, 0, "remote", [ ok |-> TRUE, deleted |-> c.id ]) ]

Completed(c, local, res, C, now) ==
  CASE c.cmd = "new" -> cmdNew(c, res, C, now)
    [] c.cmd = "show" -> cmdShow(c, local, res, C, now)
    [] c.cmd = "link" -> cmdLink(c, res, C, now)
    [] c.cmd = "search" -> cmdSearch(c, local, res, C, now)
    [] c.cmd \in { "list", "sync" } -> cmdList(c, local, res, C, now)
    [] c.cmd = "delete" -> cmdDelete(c, res, C, now)

\* no command is running
NoCli ==
  [ c |-> NoCommand, rq |-> NoRequest, local |-> << >>, program |-> "none",
    net |-> "none", fetches |-> 0 ]

Init ==
  /\ tags = {}
  /\ links = {}
  /\ linkSeq = 0
  /\ clock = 0
  /\ pc = [ r \in Reqs |-> "idle" ]
  /\ loc = [ r \in Reqs |-> IdleLoc ]
  /\ last = NoLast
  /\ issued = {}
  /\ cache = EmptyCache
  /\ cli = NoCli
  /\ out = NoOut

\* request slot r is free, and the previous response has been handed over
Idle(r) == last = NoLast /\ pc[r] = "idle"

\* the handler of request slot r can run the statement it awaits at label
At(r, label) == last = NoLast /\ pc[r] = label

\* the handler of request slot r returns: the slot is free again
Return(r) ==
  /\ pc' = [ pc EXCEPT ![r] = "idle" ]
  /\ loc' = [ loc EXCEPT ![r] = IdleLoc ]

\* the handler of request slot r goes on to await statement next
Await(r, next, locals) ==
  /\ pc' = [ pc EXCEPT ![r] = next ]
  /\ loc' = [ loc EXCEPT ![r] = [ locals EXCEPT !.since = clock ] ]
  /\ last' = NoLast

\* the values Date.now() can have returned since the handler's previous await
Now(r) == loc[r].since..clock

Tick ==
  /\ last = NoLast
  /\ clock < MaxClock
  /\ clock' = clock + 1
  /\ last' = NoLast
  /\ UNCHANGED << tags, links, linkSeq, pc, loc, issued, cache, cli, out >>

(***************************************************************************)
(* const role = getRole(request, env), the first thing fetch computes: the *)
(* role of request rq in environment env, noted with the environment.      *)
(***************************************************************************)
Role(r, rq, env) ==
    /\ Idle(r)
    /\ last' = Response(rq, 0, [ role |-> getRoleOf(rq.key, env), env |-> env ])
    /\ UNCHANGED << tags, links, linkSeq, clock, pc, loc, issued, cache, cli, out >>

\* generateId() with the draws picks, the id kept with its draws
Generate(picks) ==
    /\ Idle(1)
    /\ last' = Response(NoRequest, 0, [ id |-> generateId(picks), picks |-> picks ])
    /\ UNCHANGED << tags, links, linkSeq, clock, pc, loc, issued, cache, cli, out >>

(***************************************************************************)
(* Requests answered without a statement.                                  *)
(***************************************************************************)
\* GET /health: public
Health(r, rq) ==
    /\ Idle(r)
    /\ Handler[rq] = "health"
    /\ last' = Response(rq, 200, Ok)
    /\ UNCHANGED << tags, links, linkSeq, clock, pc, loc, issued, cache, cli, out >>

\* all other routes require auth
Unauthorized(r, rq) ==
    /\ Idle(r)
    /\ Handler[rq] = "unauthorized"
    /\ last' = Response(rq, 401, Error("Unauthorized"))
    /\ UNCHANGED << tags, links, linkSeq, clock, pc, loc, issued, cache, cli, out >>

\* PUT /id/:id, DELETE /id/:id, DELETE /id/:id/link/:type: admin only
Forbidden(r, rq) ==
    /\ Idle(r)
    /\ Handler[rq] \in AdminOnly
    /\ getRole(rq.key) # "admin"
    /\ last' = Response(rq, 403, Error("Admin required"))
    /\ UNCHANGED << tags, links, linkSeq, clock, pc, loc, issued, cache, cli, out >>

\* POST /id without name, POST /id/:id/link without type or url
NameRequired(rq) == ~Truthy(rq.body.name, EmptyText)

TypeAndUrlRequired(rq) ==
  ~Truthy(rq.body.type, EmptyText) \/ ~Truthy(rq.body.url, "")

BadRequest(r, rq) ==
    /\ Idle(r)
    /\ \/ Handler[rq] = "create" /\ NameRequired(rq)
          /\ last' = Response(rq, 400, Error("name required"))
       \/ Handler[rq] = "addLink" /\ TypeAndUrlRequired(rq)
          /\ last' = Response(rq, 400, Error("type and url required"))
    /\ UNCHANGED << tags, links, linkSeq, clock, pc, loc, issued, cache, cli, out >>

\* no route matches
NotFound(r, rq) ==
    /\ Idle(r)
    /\ Handler[rq] = "notFound"
    /\ last' = Response(rq, 404, Error("Not found"))
    /\ UNCHANGED << tags, links, linkSeq, clock, pc, loc, issued, cache, cli, out >>

(***************************************************************************)
(* POST /id - create new tag                                               *)
(***************************************************************************)
\* the body is read and validated; the loop starts with attempts = 0
CreateStart(r, rq) ==
    /\ Idle(r)
    /\ Handler[rq] = "create"
    /\ ~NameRequired(rq)
    /\ Await(r, "create_select", [ IdleLoc EXCEPT !.rq = rq ])
    /\ UNCHANGED << tags, links, linkSeq, clock, issued, cache, cli, out >>

\* the loop condition off by one: an eleventh attempt
OneMoreAttempt(attempts) == attempts <= MaxAttempts

\* `attempts < 10` of the do-while loop
MoreAttempts(attempts) == attempts < MaxAttempts

\* one turn of the loop: generateId(), SELECT id FROM tags WHERE id = ?
CreateSelect(r) ==
  /\ At(r, "create_select")
  /\ \E p \in Picks :
       LET id == generateId(p)
           existing == SelectTag(tags, id)
           drawn == [ loc[r] EXCEPT !.id = id, !.draws = @ + 1 ]
           again == [ drawn EXCEPT !.attempts = @ + 1 ]
       IN  IF existing = {}
           THEN Await(r, "create_insert", drawn)
           ELSE IF MoreAttempts(again.attempts)
           THEN Await(r, "create_select", again)
           ELSE /\ Return(r)
                /\ last' = [ Response(loc[r].rq, 500,
                                      Error("Failed to generate unique ID"))
                             EXCEPT !.draws = again.draws,
                                    !.attempts = again.attempts ]
  /\ UNCHANGED << tags, links, linkSeq, clock, issued, cache, cli, out >>

\* INSERT INTO tags (id, name, meta, created_at, updated_at); a row the primary
\* key rejects makes the statement throw, and the request ends with the
\* runtime's answer to an uncaught exception.  With record, the id of the
\* created tag is added to the history `issued`.
CreateInsert(r, record) ==
  /\ At(r, "create_insert")
  /\ \E now \in Now(r) :
       LET rq == loc[r].rq
           id == loc[r].id
           name == Get(rq.body.name)
           meta == IF rq.body.meta # None THEN Get(rq.body.meta) ELSE EmptyObject
       IN  IF PrimaryKeyOk(tags, id)
           THEN /\ tags' = tags \cup { TagRow(id, name, JSONstringify(meta), now, now) }
                /\ issued' = IF record THEN issued \cup { id } ELSE issued
                /\ last' = [ Response(rq, 201,
                                      [ id |-> id, name |-> name, meta |-> meta,
                                        created_at |-> now ])
                             EXCEPT !.draws = loc[r].draws,
                                    !.attempts = loc[r].attempts ]
           ELSE /\ last' = [ Response(rq, 500, Error("UNIQUE constraint failed: tags.id"))
                             EXCEPT !.draws = loc[r].draws,
                                    !.attempts = loc[r].attempts ]
                /\ UNCHANGED << tags, issued >>
  /\ Return(r)
  /\ UNCHANGED << links, linkSeq, clock, cache, cli, out >>

(***************************************************************************)
(* GET /id/:id - get tag                                                   *)
(***************************************************************************)
\* SELECT * FROM tags WHERE id = ?
GetTag(r, rq) ==
    /\ Idle(r)
    /\ Handler[rq] = "get"
    /\ LET id == Slice(rq.path, 4)
           tag == SelectTag(tags, id)
       IN  IF tag = {}
           THEN /\ last' = Response(rq, 404, Error("Not found"))
                /\ UNCHANGED << pc, loc >>
           ELSE Await(r, "get_links", [ IdleLoc EXCEPT !.rq = rq, !.id = id, !.tag = tag ])
    /\ UNCHANGED << tags, links, linkSeq, clock, issued, cache, cli, out >>

\* SELECT type, url FROM links WHERE tag_id = ?
GetLinks(r) ==
  /\ At(r, "get_links")
  /\ LET tag == Get(loc[r].tag) IN
     last' = Response(loc[r].rq, 200,
                      [ id |-> tag.id, name |-> tag.name, meta |-> JSONparse(tag.meta),
                        created_at |-> tag.created_at, updated_at |-> tag.updated_at,
                        links |-> LinkResults(LinksOf(links, loc[r].id)) ])
  /\ Return(r)
  /\ UNCHANGED << tags, links, linkSeq, clock, issued, cache, cli, out >>

(***************************************************************************)
(* PUT /id/:id - update tag (admin only)                                   *)
(***************************************************************************)
\* SELECT id FROM tags WHERE id = ?
UpdateSelect(r, rq) ==
    /\ Idle(r)
    /\ Handler[rq] = "update"
    /\ getRole(rq.key) = "admin"
    /\ LET id == Slice(rq.path, 4) IN
       IF SelectTag(tags, id) = {}
       THEN /\ last' = Response(rq, 404, Error("Not found"))
            /\ UNCHANGED << pc, loc >>
       ELSE Await(r, "update_run", [ IdleLoc EXCEPT !.rq = rq, !.id = id ])
    /\ UNCHANGED << tags, links, linkSeq, clock, issued, cache, cli, out >>

\* the row t after UPDATE tags SET [name = ?,] [meta = ?,] updated_at = ?
Updated(t, body, now) ==
  [ t EXCEPT !.name = IF Truthy(body.name, EmptyText) THEN Get(body.name) ELSE @,
             !.meta = IF body.meta # None THEN JSONstringify(Get(body.meta)) ELSE @,
             !.updated_at = now ]

\* UPDATE tags SET ... WHERE id = ?
UpdateRun(r) ==
  /\ At(r, "update_run")
  /\ \E now \in Now(r) :
       tags' = { IF t.id = loc[r].id THEN Updated(t, loc[r].rq.body, now) ELSE t :
                 t \in tags }
  /\ last' = Response(loc[r].rq, 200, Ok)
  /\ Return(r)
  /\ UNCHANGED << links, linkSeq, clock, issued, cache, cli, out >>

(***************************************************************************)
(* DELETE /id/:id - delete tag (admin only)                                *)
(* DELETE /id/:id/link/:type - remove link (admin only)                    *)
(***************************************************************************)
\* the tables after the statement of the DELETE handler the request is routed to
AfterDelete(rq) ==
  IF Handler[rq] = "deleteTag"
  THEN \* DELETE FROM tags WHERE id = ?, with the cascade of the schema
       LET id == Slice(rq.path, 4)
           gone == { t.id : t \in SelectTag(tags, id) }
       IN  [ tags |-> DeleteFromTags(tags, id), links |-> Cascade(links, gone) ]
  ELSE \* DELETE FROM links WHERE tag_id = ? AND type = ?
       LET parts == Split(rq.path)
           id == parts[3]
           type == parts[5]
       IN  [ tags |-> tags, links |-> DeleteFromLinks(links, id, type) ]

Delete(r, rq) ==
    /\ Idle(r)
    /\ Handler[rq] \in Deleting
    /\ getRole(rq.key) = "admin"
    /\ tags' = AfterDelete(rq).tags
    /\ links' = AfterDelete(rq).links
    /\ last' = [ Response(rq, 200, Ok)
                 EXCEPT !.removed = Cardinality(links \ AfterDelete(rq).links) ]
    /\ UNCHANGED << linkSeq, clock, pc, loc, issued, cache, cli, out >>

(***************************************************************************)
(* POST /id/:id/link - add link                                            *)
(***************************************************************************)
\* the links table can take another row of a new request while fewer than max
\* ids are handed out or promised to the requests in flight
LinkRoom(max) == linkSeq + Cardinality({ r \in Reqs : pc[r] = "link_insert" }) < max

\* SELECT id FROM tags WHERE id = ?
LinkSelect(r, rq, max) ==
    /\ Idle(r)
    /\ LinkRoom(max)
    /\ Handler[rq] = "addLink"
    /\ ~TypeAndUrlRequired(rq)
    /\ LET id == Split(rq.path)[3] IN
       IF SelectTag(tags, id) = {}
       THEN /\ last' = Response(rq, 404, Error("Tag not found"))
            /\ UNCHANGED << pc, loc >>
       ELSE Await(r, "link_insert", [ IdleLoc EXCEPT !.rq = rq, !.id = id ])
    /\ UNCHANGED << tags, links, linkSeq, clock, issued, cache, cli, out >>

\* an add-link that also sets the updated_at of the owning tag
LinkInsertTouching(r) ==
  /\ At(r, "link_insert")
  /\ \E now \in Now(r) :
       LET rq == loc[r].rq IN
       /\ links' = links \cup
             { LinkRow(linkSeq + 1, loc[r].id, Get(rq.body.type), Get(rq.body.url), now) }
       /\ tags' = { IF t.id = loc[r].id THEN [ t EXCEPT !.updated_at = now ] ELSE t :
                    t \in tags }
       /\ linkSeq' = linkSeq + 1
       /\ last' = Response(rq, 201, Ok)
  /\ Return(r)
  /\ UNCHANGED << clock, issued, cache, cli, out >>

\* INSERT INTO links (tag_id, type, url, created_at); a row the foreign key
\* rejects makes the statement throw
LinkInsert(r) ==
  /\ At(r, "link_insert")
  /\ \E now \in Now(r) :
       LET rq == loc[r].rq IN
       IF ForeignKeyOk(tags, loc[r].id)
       THEN /\ links' = links \cup
                  { LinkRow(linkSeq + 1, loc[r].id, Get(rq.body.type),
                            Get(rq.body.url), now) }
            /\ linkSeq' = linkSeq + 1
            /\ last' = Response(rq, 201, Ok)
       ELSE /\ last' = Response(rq, 500, Error("FOREIGN KEY constraint failed"))
            /\ UNCHANGED << links, linkSeq >>
  /\ Return(r)
  /\ UNCHANGED << tags, clock, issued, cache, cli, out >>

(***************************************************************************)
(* GET /search?q= - search tags;  GET /list - list all tags                *)
(***************************************************************************)
SearchResult(t) ==
  [ id |-> t.id, name |-> t.name, meta |-> JSONparse(t.meta),
    created_at |-> t.created_at, updated_at |-> t.updated_at ]

ListResult(t) ==
  [ id |-> t.id, name |-> t.name,
    created_at |-> t.created_at, updated_at |-> t.updated_at ]

Search(r, rq) ==
    /\ Idle(r)
    /\ Handler[rq] = "search"
    /\ LET q == IF Truthy(rq.q, EmptyText) THEN Get(rq.q) ELSE EmptyText
           rows == { t \in tags : Like(t.name, q) }
       IN  \E s \in OrderedByUpdated(rows) :
             LET results == Limit(s, SearchLimit) IN
             last' = Response(rq, 200,
                              [ i \in 1..Len(results) |-> SearchResult(results[i]) ])
    /\ UNCHANGED << tags, links, linkSeq, clock, pc, loc, issued, cache, cli, out >>

List(r, rq) ==
    /\ Idle(r)
    /\ Handler[rq] = "list"
    /\ \E s \in OrderedByUpdated(tags) :
         LET results == Limit(s, ListLimit) IN
         last' = Response(rq, 200,
                          [ i \in 1..Len(results) |-> ListResult(results[i]) ])
    /\ UNCHANGED << tags, links, linkSeq, clock, pc, loc, issued, cache, cli, out >>

(***************************************************************************)
(* The runtime hands the response of the last step to its client.          *)
(***************************************************************************)
Deliver ==
  /\ last # NoLast
  /\ last' = NoLast
  /\ UNCHANGED << tags, links, linkSeq, clock, pc, loc, issued, cache, cli, out >>

(***************************************************************************)
(* The CLI: one command at a time.  A command reads the cache, sends one   *)
(* request, and goes on when api() returns.  `cli` keeps the command, its  *)
(* request and what it read from the cache while the command runs, with    *)
(* the program that runs it ("pxd-cache" for the CLI with a cache, "pxd"   *)
(* for src/cli/pxd.ts), the state of the connection ("sent", or "hung"     *)
(* when the service will never answer on it) and the number of calls of    *)
(* fetch made for the command.                                             *)
(***************************************************************************)
\* a command is running: its request is on the way, in the service, or answered
InFlight == cli.rq # NoRequest

\* main(): command c reads the cache and calls the service
CliStart(c) ==
  /\ ~InFlight
  /\ Idle(1)
  /\ cli' = [ c |-> c, rq |-> ApiRequest(c), local |-> LocalRead(c, cache),
              program |-> "pxd-cache", net |-> "sent", fetches |-> 1 ]
  /\ out' = NoOut
  /\ UNCHANGED << tags, links, linkSeq, clock, pc, loc, last, issued, cache >>

\* the command goes on with the result res of api()
CliEnd(res) ==
  /\ LET end == Completed(cli.c, cli.local, res, cache, clock) IN
     /\ cache' = end.cache
     /\ out' = [ end.out EXCEPT !.had = CachedIds(cache) ]
  /\ cli' = NoCli
  /\ last' = NoLast
  /\ UNCHANGED << tags, links, linkSeq, clock, pc, loc, issued >>

\* fetch resolves with the response of the service
CliReceive ==
  /\ InFlight
  /\ last # NoLast
  /\ CliEnd(ApiResult(last))

\* fetch rejects: the request never reached the service, or its response is
\* lost or comes after the timeout
CliFail(message) ==
  /\ InFlight
  /\ pc[1] = "idle"
  /\ CliEnd(ApiFailure(message))

\* the service will never answer this call: the request, or the response, is
\* stuck on a connection that stays open
Hang ==
  /\ InFlight
  /\ cli.net = "sent"
  /\ pc[1] = "idle"
  /\ cli' = [ cli EXCEPT !.net = "hung" ]
  /\ last' = NoLast
  /\ UNCHANGED << tags, links, linkSeq, clock, pc, loc, issued, cache, out >>

\* the request of the running command can reach the service
Reaching == InFlight /\ cli.net = "sent"

\* the commands of the program with a cache: api() returns after the response,
\* after a transport error, or when the timer of 10 s aborts the call
CachedReceive == cli.program = "pxd-cache" /\ cli.net = "sent" /\ CliReceive

CachedError == cli.program = "pxd-cache" /\ cli.net = "sent" /\ CliFail("fetch failed")

CachedTimeout == cli.program = "pxd-cache" /\ CliFail("Request timeout")

(***************************************************************************)
(* src/cli/pxd.ts: a command sends one request and awaits fetch, with no   *)
(* timer and no catch around it.                                           *)
(***************************************************************************)
\* main(): command c calls the service
PxdStart(c) ==
  /\ ~InFlight
  /\ Idle(1)
  /\ cli' = [ c |-> c, rq |-> PxdApiRequest(c), local |-> << >>,
              program |-> "pxd", net |-> "sent", fetches |-> 1 ]
  /\ out' = NoOut
  /\ UNCHANGED << tags, links, linkSeq, clock, pc, loc, last, issued, cache >>

\* every command: if (!res.ok) { console.error(...); process.exit(1) }, and
\* otherwise prints what the service returned
PxdCompleted(c, res) ==
  IF ~res.ok THEN err(c, res) ELSE Ended(c, res, 0, "remote", res.data)

\* fetch resolves with the response of the service
PxdReceive ==
  /\ InFlight
  /\ cli.program = "pxd"
  /\ cli.net = "sent"
  /\ last # NoLast
  /\ out' = PxdCompleted(cli.c, ApiResult(last))
  /\ cli' = NoCli
  /\ last' = NoLast
  /\ UNCHANGED << tags, links, linkSeq, clock, pc, loc, issued, cache >>

\* fetch rejects with a transport error: api() throws, main().catch(console.error)
\* prints the exception and the process ends with exit code 0
PxdReject(message) ==
  /\ InFlight
  /\ cli.program = "pxd"
  /\ cli.net = "sent"
  /\ pc[1] = "idle"
  /\ out' = Ended(cli.c, ApiFailure(message), 0, "exception", Error(message))
  /\ cli' = NoCli
  /\ last' = NoLast
  /\ UNCHANGED << tags, links, linkSeq, clock, pc, loc, issued, cache >>

(***************************************************************************)
(* The Worker under concurrent load: the requests that reach a statement   *)
(* (valid bodies, admin credential) arrive at any time and the statements  *)
(* of the requests in flight interleave.                                   *)
(***************************************************************************)
Next ==
  \/ Deliver
  \/ \E r \in Reqs, rq \in To(StoreSent, { "create" }) : CreateStart(r, rq)
  \/ \E r \in Reqs : CreateSelect(r)
  \/ \E r \in Reqs : CreateInsert(r, FALSE)
  \/ \E r \in Reqs, rq \in To(StoreSent, { "get" }) : GetTag(r, rq)
  \/ \E r \in Reqs : GetLinks(r)
  \/ \E r \in Reqs, rq \in To(StoreSent, { "update" }) : UpdateSelect(r, rq)
  \/ \E r \in Reqs : UpdateRun(r)
  \/ \E r \in Reqs, rq \in To(StoreSent, Deleting) : Delete(r, rq)
  \/ \E r \in Reqs, rq \in To(StoreSent, { "addLink" }) : LinkSelect(r, rq, MaxLinks)
  \/ \E r \in Reqs : LinkInsert(r)

Spec == Init /\ [][Next]_vars

(***************************************************************************)
(* The Worker answering one request at a time, for every request: each     *)
(* handler runs to its response before the next request arrives.           *)
(***************************************************************************)
GateNext ==
  \/ Deliver
  \/ \E rq \in To(GateSent, { "health" }) : Health(1, rq)
  \/ \E rq \in To(GateSent, { "unauthorized" }) : Unauthorized(1, rq)
  \/ \E rq \in To(GateSent, AdminOnly) : Forbidden(1, rq)
  \/ \E rq \in To(GateSent, Validated) : BadRequest(1, rq)
  \/ \E rq \in To(GateSent, { "notFound" }) : NotFound(1, rq)
  \/ \E rq \in To(GateSent, { "create" }) : CreateStart(1, rq)
  \/ CreateSelect(1)
  \/ CreateInsert(1, FALSE)
  \/ \E rq \in To(GateSent, { "get" }) : GetTag(1, rq)
  \/ GetLinks(1)
  \/ \E rq \in To(GateSent, { "update" }) : UpdateSelect(1, rq)
  \/ UpdateRun(1)
  \/ \E rq \in To(GateSent, Deleting) : Delete(1, rq)
  \/ \E rq \in To(GateSent, { "addLink" }) : LinkSelect(1, rq, GateMaxLinks)
  \/ LinkInsert(1)
  \/ \E rq \in To(GateSent, { "search" }) : Search(1, rq)
  \/ \E rq \in To(GateSent, { "list" }) : List(1, rq)

GateSpec == Init /\ [][GateNext]_vars

(***************************************************************************)
(* The Worker answering one request at a time while the clock advances:    *)
(* tags are created, read, updated and deleted by agents and admins.       *)
(***************************************************************************)
ClockNext ==
  \/ Deliver
  \/ Tick
  \/ \E rq \in To(ClockSent, AdminOnly) : Forbidden(1, rq)
  \/ \E rq \in To(ClockSent, { "create" }) : CreateStart(1, rq)
  \/ CreateSelect(1)
  \/ CreateInsert(1, FALSE)
  \/ \E rq \in To(ClockSent, { "get" }) : GetTag(1, rq)
  \/ GetLinks(1)
  \/ \E rq \in To(ClockSent, { "update" }) : UpdateSelect(1, rq)
  \/ UpdateRun(1)
  \/ \E rq \in To(ClockSent, Deleting) : Delete(1, rq)

ClockSpec == Init /\ [][ClockNext]_vars

(***************************************************************************)
(* The Worker answering one request at a time while the clock advances:    *)
(* an agent creates tags and adds links to them.                           *)
(***************************************************************************)
LinkNext ==
  \/ Deliver
  \/ Tick
  \/ \E rq \in To(LinkSent, { "create" }) : CreateStart(1, rq)
  \/ CreateSelect(1)
  \/ CreateInsert(1, FALSE)
  \/ \E rq \in To(LinkSent, { "addLink" }) : LinkSelect(1, rq, GateMaxLinks)
  \/ LinkInsert(1)

LinkSpec == Init /\ [][LinkNext]_vars

(***************************************************************************)
(* The Worker under a concurrent load of creates and deletes of tags, with *)
(* the history of the ids that creates have returned.                      *)
(***************************************************************************)
ReuseNext ==
  \/ Deliver
  \/ \E r \in Reqs, rq \in To(StoreSent, { "create" }) : CreateStart(r, rq)
  \/ \E r \in Reqs : CreateSelect(r)
  \/ \E r \in Reqs : CreateInsert(r, TRUE)
  \/ \E r \in Reqs, rq \in To(StoreSent, { "deleteTag" }) : Delete(r, rq)

ReuseSpec == Init /\ [][ReuseNext]_vars

(***************************************************************************)
(* The Worker under a concurrent load of creates, updates and deletes of   *)
(* tags while the clock advances.                                          *)
(***************************************************************************)
RaceNext ==
  \/ Deliver
  \/ Tick
  \/ \E r \in Reqs, rq \in To(StoreSent, { "create" }) : CreateStart(r, rq)
  \/ \E r \in Reqs : CreateSelect(r)
  \/ \E r \in Reqs : CreateInsert(r, FALSE)
  \/ \E r \in Reqs, rq \in To(StoreSent, { "update" }) : UpdateSelect(r, rq)
  \/ \E r \in Reqs : UpdateRun(r)
  \/ \E r \in Reqs, rq \in To(StoreSent, { "deleteTag" }) : Delete(r, rq)

RaceSpec == Init /\ [][RaceNext]_vars

(***************************************************************************)
(* Searches and listings of large stores.  The store holds the tags        *)
(* 1..n, tag i created at time i with one of two names; one of them may    *)
(* have been updated at the time the next one was created, so that the two *)
(* have the same updated_at.  The sizes are those around the two limits.   *)
(***************************************************************************)
QuerySizes ==
  { n \in 0..MaxTags :
      \/ n <= 1
      \/ n \in (SearchLimit - 1)..(SearchLimit + 2)
      \/ n >= ListLimit - 1 }

\* the id of tag i: the draws of generateId with the last two characters varying
QueryId(i) ==
  generateId([ k \in 1..IdLength |->
                 IF k = IdLength THEN i % Len(CHARSET)
                 ELSE IF k = IdLength - 1 THEN i \div Len(CHARSET)
                 ELSE 0 ])

\* the store of n tags where every third tag is named NameY when mixed, and tag
\* tie (if any) was updated at time tie + 1
QueryStore(n, mixed, tie) ==
  { TagRow(QueryId(i),
           IF mixed /\ i % 3 = 0 THEN NameY ELSE NameX,
           JSONstringify(EmptyObject),
           i,
           IF i = tie THEN i + 1 ELSE i) : i \in 1..n }

QueryInit ==
  /\ \E n \in QuerySizes, mixed \in BOOLEAN, tie \in 0..MaxTie :
       /\ tie < n
       /\ tags = QueryStore(n, mixed, tie)
  /\ links = {}
  /\ linkSeq = 0
  /\ clock = MaxTags + 1
  /\ pc = [ r \in Reqs |-> "idle" ]
  /\ loc = [ r \in Reqs |-> IdleLoc ]
  /\ last = NoLast
  /\ issued = {}
  /\ cache = EmptyCache
  /\ cli = NoCli
  /\ out = NoOut

QueryNext ==
  \/ Deliver
  \/ \E rq \in To(QuerySent, { "search" }) : Search(1, rq)
  \/ \E rq \in To(QuerySent, { "list" }) : List(1, rq)

QuerySpec == QueryInit /\ [][QueryNext]_vars

(***************************************************************************)
(* The role of every request in every environment, in every store that     *)
(* creates and deletes of tags lead to.                                    *)
(***************************************************************************)
RoleNext ==
  \/ Deliver
  \/ \E rq \in RoleRequests, env \in Envs : Role(1, rq, env)
  \/ \E rq \in To(StoreSent, { "create" }) : CreateStart(1, rq)
  \/ CreateSelect(1)
  \/ CreateInsert(1, FALSE)
  \/ \E rq \in To(StoreSent, { "deleteTag" }) : Delete(1, rq)

RoleSpec == Init /\ [][RoleNext]_vars

(***************************************************************************)
(* One client and the Worker: the commands of the CLI run one at a time,   *)
(* each with one request that the Worker answers, unless the network fails *)
(* it; between two commands an admin elsewhere may delete a tag.           *)
(***************************************************************************)
CliNext ==
  \/ \E c \in Commands : CliStart(c)
  \/ CliReceive
  \/ \E message \in FailureMessages : CliFail(message)
  \/ InFlight /\ Unauthorized(1, cli.rq)
  \/ InFlight /\ BadRequest(1, cli.rq)
  \/ InFlight /\ CreateStart(1, cli.rq)
  \/ CreateSelect(1)
  \/ CreateInsert(1, FALSE)
  \/ InFlight /\ GetTag(1, cli.rq)
  \/ GetLinks(1)
  \/ InFlight /\ Delete(1, cli.rq)
  \/ InFlight /\ LinkSelect(1, cli.rq, MaxLinks)
  \/ LinkInsert(1)
  \/ InFlight /\ Search(1, cli.rq)
  \/ InFlight /\ List(1, cli.rq)
  \/ ~InFlight /\ \E rq \in To(StoreSent, { "deleteTag" }) : Delete(1, rq)
  \/ ~InFlight /\ Deliver

CliSpec == Init /\ [][CliNext]_vars

(***************************************************************************)
(* One client, the Worker and the clock: the client creates, shows, links  *)
(* and lists tags while time passes, and nothing deletes or updates a tag, *)
(* so that the record of a tag has held one updated_at only, the one it    *)
(* has.                                                                    *)
(***************************************************************************)
StampNext ==
  \/ \E c \in StampCommands : CliStart(c)
  \/ CliReceive
  \/ CliFail("Request timeout")
  \/ InFlight /\ CreateStart(1, cli.rq)
  \/ CreateSelect(1)
  \/ CreateInsert(1, FALSE)
  \/ InFlight /\ GetTag(1, cli.rq)
  \/ GetLinks(1)
  \/ InFlight /\ LinkSelect(1, cli.rq, MaxLinks)
  \/ LinkInsert(1)
  \/ InFlight /\ List(1, cli.rq)
  \/ Tick

StampSpec == Init /\ [][StampNext]_vars

(***************************************************************************)
(* The generator alone: ids are generated from draws that cover CHARSET.   *)
(***************************************************************************)
IdNext ==
  \/ \E picks \in AllPicks : Generate(picks)
  \/ Deliver

IdSpec == Init /\ [][IdNext]_vars

(***************************************************************************)
(* The calls of both programs.  A command sends its request; the Worker    *)
(* answers it, or a transport error ends the call, or the connection hangs *)
(* and the service never answers.  The Worker goes on with a request it    *)
(* has, a response on an open connection arrives, and the timer of the     *)
(* program with a cache fires when its call has not completed.             *)
(***************************************************************************)
Serve ==
  \/ Reaching /\ Unauthorized(1, cli.rq)
  \/ Reaching /\ CreateStart(1, cli.rq)
  \/ CreateSelect(1)
  \/ CreateInsert(1, FALSE)
  \/ Reaching /\ GetTag(1, cli.rq)
  \/ GetLinks(1)
  \/ Reaching /\ List(1, cli.rq)

CallNext ==
  \/ \E c \in CallCommands : CliStart(c)
  \/ \E c \in CallCommands : PxdStart(c)
  \/ Serve
  \/ Hang
  \/ CachedReceive
  \/ CachedError
  \/ CachedTimeout
  \/ PxdReceive
  \/ PxdReject("fetch failed")

CallSpec ==
  /\ Init
  /\ [][CallNext]_vars
  /\ WF_vars(Serve)
  /\ WF_vars(CachedReceive)
  /\ WF_vars(CachedTimeout)
  /\ WF_vars(PxdReceive)

(***************************************************************************)
(* Vocabulary of the properties: what a request asks for, read off its     *)
(* method and path as the API table gives them, not off the routing.       *)
(***************************************************************************)
TagIds == { t.id : t \in tags }

Answered == last.status # 0

IsCreate(rq) == rq.method = "POST" /\ rq.path = PathId

IsGet(rq, id) == rq.method = "GET" /\ rq.path = PathTag(id)

IsUpdate(rq, id) == rq.method = "PUT" /\ rq.path = PathTag(id)

IsDeleteTag(rq, id) == rq.method = "DELETE" /\ rq.path = PathTag(id)

IsAddLink(rq, id) == rq.method = "POST" /\ rq.path = PathLink(id)

IsRemoveLink(rq, id, type) == rq.method = "DELETE" /\ rq.path = PathLinkType(id, type)

IsSearch(rq) == rq.method = "GET" /\ rq.path = PathSearch

IsList(rq) == rq.method = "GET" /\ rq.path = PathList

IsHealth(rq) == rq.path = PathHealth

\* operations open to an agent, and operations reserved to an admin
AgentOperation(rq) ==
  \/ IsCreate(rq) \/ IsSearch(rq) \/ IsList(rq)
  \/ \E id \in IdSpace : IsGet(rq, id) \/ IsAddLink(rq, id)

AdminOperation(rq) ==
  \E id \in IdSpace :
    \/ IsUpdate(rq, id) \/ IsDeleteTag(rq, id)
    \/ \E t \in Types : IsRemoveLink(rq, id, t)

\* the last step answered a create with the created tag
Created == last.status = 201 /\ IsCreate(last.rq)

\* the last step answered a create with the error of the exhausted id space
Exhausted ==
  /\ last.status = 500 /\ IsCreate(last.rq)
  /\ last.data = Error("Failed to generate unique ID")

(***************************************************************************)
(* C1: no two tags of the store share an id, whatever the interleaving of  *)
(* create, update, delete, add-link and remove-link requests; and the id   *)
(* of the tag a successful create inserts is the id of no tag that was in  *)
(* the store when it was inserted.                                         *)
(***************************************************************************)
UniqueIds == \A t1, t2 \in tags : t1.id = t2.id => t1 = t2

C1_UniqueTagIds ==
  /\ []UniqueIds
  /\ [][Created' => last'.data.id \notin TagIds]_vars

\* a tag has just been created with an id that a concurrent create has drawn
\* and found free, and is about to insert
C1_Witness ==
  /\ Created
  /\ \E r \in Reqs : pc[r] = "create_insert" /\ loc[r].id = last.data.id

(***************************************************************************)
(* C2: a create draws at most 10 ids and stops at the first one that is    *)
(* not in the store: a created tag that met k collisions cost k + 1 draws, *)
(* k < 10, and is one new row with created_at = updated_at; after 10       *)
(* collisions the create fails with the error of the exhausted id space    *)
(* and the store is as it was.                                             *)
(***************************************************************************)
C2_LoopState ==
  \A r \in Reqs :
    /\ loc[r].draws <= MaxAttempts
    /\ pc[r] = "create_select" =>
         loc[r].draws = loc[r].attempts /\ loc[r].attempts < MaxAttempts
    /\ pc[r] = "create_insert" =>
         loc[r].draws = loc[r].attempts + 1 /\ loc[r].attempts < MaxAttempts

C2_Outcome ==
  /\ Created =>
       /\ last.draws = last.attempts + 1
       /\ last.attempts < MaxAttempts
       /\ \E t \in tags :
            /\ t.id = last.data.id
            /\ t.created_at = t.updated_at
            /\ t.created_at = last.data.created_at
  /\ Exhausted => last.draws = MaxAttempts /\ last.attempts = MaxAttempts

C2_Step ==
  /\ \A r \in Reqs :
       (pc[r] = "create_select" /\ loc'[r].draws = loc[r].draws + 1) =>
         /\ pc'[r] = "create_select" =>
              loc'[r].id \in TagIds /\ loc'[r].attempts = loc[r].attempts + 1
         /\ pc'[r] = "create_insert" =>
              loc'[r].id \notin TagIds /\ loc'[r].attempts = loc[r].attempts
  /\ Created' =>
       /\ Cardinality(tags') = Cardinality(tags) + 1
       /\ \E t \in tags' : t.id = last'.data.id /\ tags' = tags \cup { t }
  /\ Exhausted' => UNCHANGED << tags, links, linkSeq >>

C2_BoundedCreate == [](C2_LoopState /\ C2_Outcome) /\ [][C2_Step]_vars

\* a create succeeded at its last attempt, after 9 collisions
C2_Witness == Created /\ last.attempts = MaxAttempts - 1 /\ last.draws = MaxAttempts

\* a create gave up after 10 collisions
C2_WitnessExhausted == Exhausted /\ last.draws = MaxAttempts

(***************************************************************************)
(* C3: when two concurrent creates draw the same free id and both pass the *)
(* existence check, the one whose insert the primary key rejects draws a   *)
(* new id and still answers with a created tag: a create that found a free *)
(* id within its attempts never ends in an error.                          *)
(***************************************************************************)
C3_RejectedInsertIsRetried ==
  (Answered /\ IsCreate(last.rq) /\ last.attempts < MaxAttempts) => Created

(***************************************************************************)
(* C4: an id is never reused: once a create has returned id X, no later    *)
(* create returns X again, also after the tag X has been deleted.          *)
(***************************************************************************)
C4_NeverReused == [][Created' => last'.data.id \notin issued]_vars

\* C4 as amended: a create never returns the id of a tag that an earlier create
\* returned and that is still in the store; the id of a deleted tag can be drawn
\* and returned again
C4_NotReusedWhilePresent ==
  [][Created' => last'.data.id \notin (issued \cap TagIds)]_vars

\* a create has returned an id while the tag of an earlier create is in the store
C4_Witness ==
  /\ Created
  /\ \E x \in issued \cap TagIds : x # last.data.id

(***************************************************************************)
(* C5: the authorization matrix.  /health answers ok for every role; a     *)
(* request without credential is answered 401 on every other path; with    *)
(* the agent credential create, get, search, list and add-link pass the    *)
(* gate, and update, delete-tag and remove-link are answered 403; a        *)
(* request answered 401 or 403 leaves the store as it was.                 *)
(***************************************************************************)
C5_Answers ==
  Answered =>
    /\ IsHealth(last.rq) => last.status = 200 /\ last.data = Ok
    /\ (~IsHealth(last.rq) /\ last.rq.key = None) => last.status = 401
    /\ (last.rq.key = Some(PXD_AGENT_KEY) /\ AgentOperation(last.rq)) =>
         last.status \notin { 401, 403 }
    /\ (last.rq.key = Some(PXD_AGENT_KEY) /\ AdminOperation(last.rq)) =>
         last.status = 403

C5_Rejected == last'.status \in { 401, 403 } => UNCHANGED << tags, links, linkSeq >>

C5_AuthorizationMatrix == []C5_Answers /\ [][C5_Rejected]_vars

\* an agent asked to remove a link of a tag that has one, and was refused
C5_Witness ==
  /\ last.status = 403
  /\ last.rq.key = Some(PXD_AGENT_KEY)
  /\ \E l \in links : IsRemoveLink(last.rq, l.tag_id, l.type)

(***************************************************************************)
(* C6: on a gated path 401 is answered only when no credential is          *)
(* presented; a presented credential whose role is too low, also one that  *)
(* matches neither secret, is answered 403.                                *)
(***************************************************************************)
C6_UnauthorizedOnlyWithoutCredential ==
  (Answered /\ ~IsHealth(last.rq)) =>
    /\ last.status = 401 => last.rq.key = None
    /\ (last.rq.key = Some(OtherKey) \/
        (last.rq.key = Some(PXD_AGENT_KEY) /\ AdminOperation(last.rq))) =>
         last.status = 403

\* C6 as amended: on a gated path 401 is answered exactly when the request has
\* no role, that is when it presents no credential or a credential that matches
\* neither secret; 403 is answered exactly when the agent credential is
\* presented for an operation reserved to an admin
C6_UnauthorizedIffNoRole ==
  (Answered /\ ~IsHealth(last.rq)) =>
    /\ last.status = 401 <=> last.rq.key \in { None, Some(OtherKey) }
    /\ last.status = 403 <=>
         (last.rq.key = Some(PXD_AGENT_KEY) /\ AdminOperation(last.rq))

\* a credential that matches neither secret was presented for an admin operation
C6_Witness ==
  /\ last.status = 401
  /\ last.rq.key = Some(OtherKey)
  /\ AdminOperation(last.rq)

(***************************************************************************)
(* C7: after an admin's remove-link request for (id, type) is answered ok, *)
(* the tag id owns no link of that type.                                   *)
(***************************************************************************)
C7_RemoveLinkRemoves ==
  \A id \in IdSpace, type \in Types :
    (last.status = 200 /\ IsRemoveLink(last.rq, id, type)) =>
      \A l \in links : ~(l.tag_id = id /\ l.type = type)

(***************************************************************************)
(* C8: deleting a tag removes the tag and all of its links in one step:    *)
(* once delete(id) is answered ok the store holds no tag id and no link of *)
(* id, a get of an id that is not in the store is answered 404, and in no  *)
(* state is a tag gone while a link of it remains.                         *)
(***************************************************************************)
C8_State ==
  /\ \A l \in links : l.tag_id \in TagIds
  /\ \A id \in IdSpace :
       (Answered /\ IsGet(last.rq, id) /\ last.status # 401) =>
         (last.status = 404 <=> id \notin TagIds)

C8_Step ==
  \A id \in IdSpace :
    (last'.status = 200 /\ IsDeleteTag(last'.rq, id)) =>
      /\ id \notin { t.id : t \in tags' }
      /\ \A l \in links' : l.tag_id # id
      /\ \A t \in tags : t.id # id => t \in tags'
      /\ \A l \in links : l.tag_id # id => l \in links'

C8_DeleteCascades == []C8_State /\ [][C8_Step]_vars

\* a tag that owned two links has just been deleted, beside another tag
C8_Witness ==
  /\ last.status = 200
  /\ \E id \in IdSpace : IsDeleteTag(last.rq, id)
  /\ last.removed = 2
  /\ tags # {}

(***************************************************************************)
(* C9: referential integrity: in every state the tag_id of every link is   *)
(* the id of a tag in the store, also when an add-link (existence check,   *)
(* then insert) interleaves with a delete of the same tag.                 *)
(***************************************************************************)
C9_ReferentialIntegrity == \A l \in links : \E t \in tags : t.id = l.tag_id

\* the tag was deleted between the existence check and the insert of an add-link
C9_Witness ==
  /\ last.status = 500
  /\ \E id \in IdSpace : IsAddLink(last.rq, id) /\ id \notin TagIds
  /\ last.data = Error("FOREIGN KEY constraint failed")

(***************************************************************************)
(* C10: a create by an agent or admin whose name is the empty string is    *)
(* answered with a created tag, and the store holds that tag with an empty *)
(* name.                                                                   *)
(***************************************************************************)
C10_EmptyNameCreates ==
  ( /\ Answered
    /\ IsCreate(last.rq)
    /\ last.rq.body.name = Some(EmptyText)
    /\ last.rq.key \in { Some(PXD_ADMIN_KEY), Some(PXD_AGENT_KEY) } ) =>
  ( /\ last.status = 201
    /\ \E t \in tags : t.id = last.data.id /\ t.name = EmptyText )

(***************************************************************************)
(* C11: an update by an admin is a partial update.  When the tag is in the *)
(* store the request is answered ok and the tag's row changes as follows:  *)
(* a field present in the body (name, meta) takes the supplied value, a    *)
(* field absent from the body keeps its value, id and created_at are kept, *)
(* updated_at is a time of the request; no other tag and no link changes.  *)
(* When the tag is not in the store the request is answered 404 and the    *)
(* store is unchanged.                                                     *)
(***************************************************************************)
C11_Present(name) == name # None

C11_NonEmpty(name) == Truthy(name, EmptyText)

C11_Row(t, u, body, Given(_)) ==
  /\ u.id = t.id
  /\ u.created_at = t.created_at
  /\ u.name = IF Given(body.name) THEN Get(body.name) ELSE t.name
  /\ u.meta = IF body.meta # None THEN JSONstringify(Get(body.meta)) ELSE t.meta
  /\ \E r \in Reqs : pc[r] = "update_run" /\ u.updated_at \in loc[r].since..clock

C11_Step(Given(_)) ==
  \A id \in IdSpace :
    (last'.status # 0 /\ IsUpdate(last'.rq, id) /\ last'.rq.key = Some(PXD_ADMIN_KEY)) =>
      IF id \in TagIds
      THEN /\ last'.status = 200
           /\ \E t \in tags, u \in tags' :
                /\ t.id = id
                /\ C11_Row(t, u, last'.rq.body, Given)
                /\ tags' = (tags \ { t }) \cup { u }
           /\ UNCHANGED << links, linkSeq >>
      ELSE /\ last'.status = 404
           /\ UNCHANGED << tags, links, linkSeq >>

C11_PartialUpdate == [][C11_Step(C11_Present)]_vars

\* what the handler does instead: the statement holds for the updates whose
\* name, when present, is not the empty string; an empty name is left out of
\* the UPDATE and the request is answered ok all the same
C11_UpdateOfNonEmptyName == [][C11_Step(C11_NonEmpty)]_vars

\* an update with an empty name was answered ok and the name is as it was
C11_EmptyNameIgnored ==
  /\ last.status = 200
  /\ last.rq.body.name = Some(EmptyText)
  /\ \E t \in tags : IsUpdate(last.rq, t.id) /\ t.name # EmptyText

(***************************************************************************)
(* C12: an add-link (type and url given) for an id that is not in the      *)
(* store is answered 404 and changes nothing; for a tag of the store it is *)
(* answered 201 and adds exactly one link row, of that tag, type and url,  *)
(* also when the tag has a link of that type already, and it leaves every  *)
(* tag row as it was, the updated_at of the owning tag included.           *)
(***************************************************************************)
C12_Step ==
  \A id \in IdSpace :
    ( /\ last'.status # 0
      /\ IsAddLink(last'.rq, id)
      /\ last'.rq.key \in { Some(PXD_ADMIN_KEY), Some(PXD_AGENT_KEY) }
      /\ ~TypeAndUrlRequired(last'.rq) ) =>
      IF id \in TagIds
      THEN /\ last'.status = 201
           /\ \E l \in links' :
                /\ l \notin links
                /\ links' = links \cup { l }
                /\ l.tag_id = id
                /\ l.type = Get(last'.rq.body.type)
                /\ l.url = Get(last'.rq.body.url)
           /\ Cardinality(links') = Cardinality(links) + 1
           /\ UNCHANGED tags
      ELSE /\ last'.status = 404
           /\ UNCHANGED << tags, links, linkSeq >>

C12_AddLink == [][C12_Step]_vars

\* a second link of the same type has just been added to a tag, later than the
\* tag was last updated
C12_Witness ==
  /\ last.status = 201
  /\ \E t \in tags, l1, l2 \in links :
       /\ IsAddLink(last.rq, t.id)
       /\ l1 # l2
       /\ l1.tag_id = t.id /\ l2.tag_id = t.id
       /\ l1.type = l2.type
       /\ l2.created_at > t.updated_at

(***************************************************************************)
(* C13: in every reachable state every tag has updated_at >= created_at,   *)
(* and the created_at of a tag is the value its create set: the value the  *)
(* create answered, kept by every later step while the tag is in the       *)
(* store.  The clock never goes backwards.                                 *)
(***************************************************************************)
C13_Ordered == \A t \in tags : t.updated_at >= t.created_at

C13_CreatedAtKept ==
  /\ clock' >= clock
  /\ \A t \in tags, u \in tags' : u.id = t.id => u.created_at = t.created_at
  /\ Created' =>
       \E u \in tags' : u.id = last'.data.id /\ u.created_at = last'.data.created_at

C13_Timestamps == []C13_Ordered /\ [][C13_CreatedAtKept]_vars

\* an update has been answered for a tag that was created after the update
\* read the clock
C13_StaleUpdate ==
  /\ last.status = 200
  /\ \E t \in tags : IsUpdate(last.rq, t.id) /\ t.updated_at < t.created_at

(***************************************************************************)
(* C14: a create without name and an add-link without type or without url  *)
(* are answered 400 when the credential passes the gate, in one step that  *)
(* awaits no statement and leaves the store as it was; the gate comes      *)
(* first: without a role the same requests are answered 401, never 400.    *)
(***************************************************************************)
C14_Missing(rq) ==
  \/ IsCreate(rq) /\ rq.body.name = None
  \/ \E id \in IdSpace :
       IsAddLink(rq, id) /\ (rq.body.type = None \/ rq.body.url = None)

C14_Answers ==
  (Answered /\ C14_Missing(last.rq)) =>
    IF last.rq.key \in { Some(PXD_ADMIN_KEY), Some(PXD_AGENT_KEY) }
    THEN last.status = 400
    ELSE last.status = 401

C14_Untouched ==
  last'.status = 400 =>
    /\ UNCHANGED << tags, links, linkSeq >>
    /\ \A r \in Reqs : pc[r] = "idle" /\ pc'[r] = "idle"

C14_BadRequest == []C14_Answers /\ [][C14_Untouched]_vars

\* an agent's add-link without url for a tag of the store was answered 400
C14_Witness ==
  /\ last.status = 400
  /\ last.rq.key = Some(PXD_AGENT_KEY)
  /\ last.rq.body.url = None
  /\ \E t \in tags : IsAddLink(last.rq, t.id)

\* a create without name and without credential was answered 401
C14_WitnessGateFirst ==
  /\ last.status = 401
  /\ IsCreate(last.rq)
  /\ last.rq.body.name = None
  /\ last.rq.key = None

(***************************************************************************)
(* C15: whatever the store, a search answers at most 50 tags and a list at *)
(* most 100, each tag of the store at most once and, for a search, only    *)
(* tags whose name matches; the answer is ordered by updated_at, largest   *)
(* first; it is as long as the limit allows, and no tag left out was       *)
(* updated more recently than a tag of the answer.                         *)
(***************************************************************************)
C15_Matching ==
  IF IsList(last.rq) THEN tags
  ELSE { t \in tags :
           Like(t.name, IF last.rq.q = None THEN EmptyText ELSE Get(last.rq.q)) }

C15_Cap == IF IsList(last.rq) THEN ListLimit ELSE SearchLimit

C15_Returned == { t \in C15_Matching : \E i \in 1..Len(last.data) : last.data[i].id = t.id }

C15_Queries ==
  (last.status = 200 /\ (IsSearch(last.rq) \/ IsList(last.rq))) =>
    /\ Len(last.data) <= C15_Cap
    /\ Len(last.data) =
         IF Cardinality(C15_Matching) < C15_Cap THEN Cardinality(C15_Matching) ELSE C15_Cap
    /\ Cardinality(C15_Returned) = Len(last.data)
    /\ \A i \in 1..Len(last.data) :
         \E t \in C15_Matching :
           /\ t.id = last.data[i].id
           /\ t.name = last.data[i].name
           /\ t.updated_at = last.data[i].updated_at
    /\ \A i, j \in 1..Len(last.data) :
         i < j => last.data[i].updated_at >= last.data[j].updated_at
    /\ \A t \in C15_Returned, u \in C15_Matching \ C15_Returned :
         t.updated_at >= u.updated_at

\* a search has answered 50 of more matching tags, and a tag left out has the
\* same updated_at as a tag of the answer
C15_Witness ==
  /\ last.status = 200
  /\ IsSearch(last.rq)
  /\ Len(last.data) = SearchLimit
  /\ Cardinality(C15_Matching) > SearchLimit
  /\ \E t \in C15_Returned, u \in C15_Matching \ C15_Returned :
       t.updated_at = u.updated_at

\* a list has answered 100 of 101 tags
C15_WitnessList ==
  /\ last.status = 200
  /\ IsList(last.rq)
  /\ Len(last.data) = ListLimit
  /\ Cardinality(tags) > ListLimit

(***************************************************************************)
(* C16: round trip.  A successful create({name: X}) leaves in the store a  *)
(* tag with the answered id, name X, meta {} (the meta given, if one is),  *)
(* created_at = updated_at and no link; the steps up to the answer of a    *)
(* get leave the store as it is; and a get answers the tag of the store:   *)
(* its id, name, decoded meta, created_at, updated_at and its links.  So a *)
(* get right after the create answers id, X, {}, [] and created_at =       *)
(* updated_at.                                                             *)
(***************************************************************************)
C16_Created ==
  Created =>
    \E t \in tags :
      /\ t.id = last.data.id
      /\ t.name = Get(last.rq.body.name)
      /\ t.meta = JSONstringify(IF last.rq.body.meta = None THEN EmptyObject
                                ELSE Get(last.rq.body.meta))
      /\ t.created_at = t.updated_at
      /\ \A l \in links : l.tag_id # t.id

C16_Got ==
  \A id \in IdSpace :
    (last.status = 200 /\ IsGet(last.rq, id)) =>
      \E t \in tags, m \in Objects :
        /\ t.id = id
        /\ t.meta = JSONstringify(m)
        /\ last.data.id = id
        /\ last.data.name = t.name
        /\ last.data.meta = m
        /\ last.data.created_at = t.created_at
        /\ last.data.updated_at = t.updated_at
        /\ Len(last.data.links) = Cardinality({ l \in links : l.tag_id = id })
        /\ \A i \in 1..Len(last.data.links) :
             \E l \in links :
               /\ l.tag_id = id
               /\ last.data.links[i] = [ type |-> l.type, url |-> l.url ]

C16_Between ==
  (last'.status = 0 \/ \E id \in IdSpace : IsGet(last'.rq, id)) =>
    UNCHANGED << tags, links >>

C16_RoundTrip == [](C16_Created /\ C16_Got) /\ [][C16_Between]_vars

\* a get has answered a tag as its create left it, created after the clock
\* advanced: name X, meta {}, no links, created_at = updated_at
C16_Witness ==
  /\ last.status = 200
  /\ \E id \in IdSpace : IsGet(last.rq, id)
  /\ last.data.name = NameX
  /\ last.data.meta = EmptyObject
  /\ last.data.links = << >>
  /\ last.data.created_at = last.data.updated_at
  /\ last.data.created_at > 0

(***************************************************************************)
(* C17: the role of a request is a function of its credential and the two  *)
(* configured secrets only, whatever its method and path and whatever the  *)
(* store holds: none without credential (or with an empty one), admin for  *)
(* the admin secret, also when the agent secret is the same string, agent  *)
(* for a credential that is only the agent secret, none for any other.     *)
(***************************************************************************)
C17_Expected(key, env) ==
  IF key = None \/ key = Some("") THEN "none"
  ELSE IF key = Some(env.PXD_ADMIN_KEY) THEN "admin"
  ELSE IF key = Some(env.PXD_AGENT_KEY) THEN "agent"
  ELSE "none"

C17_RoleIsFunction ==
  "role" \in DOMAIN last.data =>
    last.data.role = C17_Expected(last.rq.key, last.data.env)

\* both secrets are the same string, and a request that presents it to delete a
\* tag of the store has the role admin
C17_Witness ==
  /\ "role" \in DOMAIN last.data
  /\ last.data.env.PXD_ADMIN_KEY = last.data.env.PXD_AGENT_KEY
  /\ last.rq.key = Some(last.data.env.PXD_AGENT_KEY)
  /\ last.data.role = "admin"
  /\ \E t \in tags : IsDeleteTag(last.rq, t.id)

(***************************************************************************)
(* C18: cache write-through.  When a new, show or link command of the CLI  *)
(* gets a successful response for tag id, the cache afterwards holds an    *)
(* entry for id that reflects the operation: the created tag, the tag the  *)
(* service returned, an entry whose links include the added link.          *)
(***************************************************************************)
\* the running command cmd ends in this step with a successful response
C18_Succeeds(cmd) ==
  /\ InFlight
  /\ cli.c.cmd = cmd
  /\ out'.cmd = cmd
  /\ out'.status \in 200..299

\* the links of a cached tag, none when it was stored without them
C18_Links(t) == IF t.links = None THEN {} ELSE { Get(t.links)[i] : i \in 1..Len(Get(t.links)) }

C18_Added == [ type |-> cli.c.type, url |-> cli.c.url ]

C18_NewCached ==
  C18_Succeeds("new") =>
    \E t \in cacheGet(cache', last.data.id) :
      /\ t.name = last.data.name
      /\ t.meta = Some(last.data.meta)
      /\ t.created_at = last.data.created_at

C18_ShowCached ==
  C18_Succeeds("show") =>
    \E t \in cacheGet(cache', cli.c.id) :
      /\ t.name = last.data.name
      /\ t.meta = Some(last.data.meta)
      /\ t.links = Some(last.data.links)
      /\ t.created_at = last.data.created_at
      /\ t.updated_at = last.data.updated_at

\* as stated: whether or not id was cached before
C18_LinkCached ==
  C18_Succeeds("link") =>
    \E t \in cacheGet(cache', cli.c.id) : C18_Added \in C18_Links(t)

C18_WriteThrough == [][C18_NewCached /\ C18_ShowCached /\ C18_LinkCached]_vars

\* C18: as the code has it: new and show always write the entry; link adds the
\* link to the entry of id when the cache holds one, keeping its earlier links,
\* and otherwise leaves the cache without an entry for id
C18_LinkMerged ==
  C18_Succeeds("link") =>
    IF cacheGet(cache, cli.c.id) # {}
    THEN \E t \in cacheGet(cache', cli.c.id) :
           /\ C18_Added \in C18_Links(t)
           /\ \A u \in cacheGet(cache, cli.c.id) : C18_Links(u) \subseteq C18_Links(t)
    ELSE cacheGet(cache', cli.c.id) = {}

C18_WriteThroughWhenCached ==
  [][C18_NewCached /\ C18_ShowCached /\ C18_LinkMerged]_vars

\* a link command has succeeded for a cached tag, whose entry now has the link
C18_Witness ==
  /\ out.cmd = "link"
  /\ out.status = 201
  /\ \E t \in cacheGet(cache, out.id) :
       [ type |-> TypeGithub, url |-> Url1 ] \in C18_Links(t)

\* a link command has succeeded for a tag of the store that the cache does not hold
C18_WitnessUncached ==
  /\ out.cmd = "link"
  /\ out.status = 201
  /\ \E t \in tags : t.id = out.id
  /\ cacheGet(cache, out.id) = {}

(***************************************************************************)
(* C19: list and sync replace the whole cache.  When a list or sync        *)
(* command gets a successful response, the cache afterwards holds exactly  *)
(* the ids of the listing, one entry each, so that a show or a search that *)
(* reads the cache finds no tag that the listing does not have; when the   *)
(* call fails, with an error status or without a response, the cache is    *)
(* as it was.                                                              *)
(***************************************************************************)
\* the running list or sync command ends in this step
C19_ListEnds ==
  /\ InFlight
  /\ cli.c.cmd \in { "list", "sync" }
  /\ out'.cmd = cli.c.cmd

C19_Listed == { last.data[i].id : i \in 1..Len(last.data) }

\* what show id and search read from cache C
C19_Shown(C, id) == LocalRead(Command("show", id, None, << >>, cli.c.config), C)

C19_Found(C) == LocalRead(Command("search", << >>, None, EmptyText, cli.c.config), C)

C19_Step ==
  C19_ListEnds =>
    IF out'.status \in 200..299
    THEN /\ CachedIds(cache') = C19_Listed
         /\ Len(cache'.tags) = Len(last.data)
         /\ \A id \in IdSpace \ C19_Listed :
              /\ C19_Shown(cache', id) = << >>
              /\ \A i \in 1..Len(C19_Found(cache')) : C19_Found(cache')[i].id # id
    ELSE cache' = cache

C19_FullReplace == [][C19_Step]_vars

\* a list or sync has succeeded and has evicted a tag that is no longer in the
\* store
C19_Witness ==
  /\ out.cmd \in { "list", "sync" }
  /\ out.status = 200
  /\ \E id \in out.had :
       /\ \A t \in tags : t.id # id
       /\ id \notin CachedIds(cache)

\* a list has failed with an error status and the cache still has its entries
C19_WitnessFailed ==
  /\ out.cmd = "list"
  /\ out.status = 401
  /\ cache.tags # << >>

(***************************************************************************)
(* C20: the result of the search command.  When the remote search          *)
(* succeeds, the command returns exactly the remote result, whatever the   *)
(* cache matched; it returns the matches of the cache only when the call   *)
(* failed without a response (timeout, transport error), not when the      *)
(* service answered with an error status.                                  *)
(***************************************************************************)
\* the running search command ends in this step
C20_SearchEnds ==
  /\ InFlight
  /\ cli.c.cmd = "search"
  /\ out'.cmd = "search"

C20_RemoteOnSuccess ==
  C20_SearchEnds /\ out'.status \in 200..299 =>
    /\ out'.exit = 0
    /\ out'.from = "remote"
    /\ out'.data = last.data

C20_LocalOnlyOnNetworkFailure ==
  C20_SearchEnds /\ out'.exit = 0 /\ out'.from = "cache" => out'.status = 0

C20_SearchResult == [][C20_RemoteOnSuccess /\ C20_LocalOnlyOnNetworkFailure]_vars

\* the half of C20 that the code keeps
C20_SearchRemoteOnSuccess == [][C20_RemoteOnSuccess]_vars

(***************************************************************************)
(* C21: the result of the show command.  show id presents the cached tag   *)
(* in place of a remote result only when the call failed without a         *)
(* response (timeout, transport error); when the service answers with an   *)
(* error status, such as 404 for a tag deleted remotely, show reports the  *)
(* error and does not present the cached tag.                              *)
(***************************************************************************)
\* the running show command ends in this step
C21_ShowEnds ==
  /\ InFlight
  /\ cli.c.cmd = "show"
  /\ out'.cmd = "show"

C21_CacheOnlyOnNetworkFailure ==
  C21_ShowEnds /\ out'.exit = 0 /\ out'.from = "cache" => out'.status = 0

C21_ErrorStatusReported ==
  C21_ShowEnds /\ out'.status \notin (200..299) \cup { 0 } =>
    /\ out'.exit = 1
    /\ out'.data = last.data

C21_ShowFallback == [][C21_CacheOnlyOnNetworkFailure /\ C21_ErrorStatusReported]_vars

\* the part of C21 that the code keeps: without a response, show presents the
\* cached tag when there is one, and the cache is what it presents
C21_CachedOnNetworkFailure ==
  C21_ShowEnds /\ out'.status = 0 /\ cli.local # << >> =>
    /\ out'.exit = 0
    /\ out'.from = "cache"
    /\ out'.data = cli.local[1]
    /\ cache' = cache

C21_ShowCachedOnNetworkFailure == [][C21_CachedOnNetworkFailure]_vars

\* the case C21 names: the tag was deleted remotely, the service answers 404,
\* and show presents the cached tag with exit code 0
C21_DeletedTagShown ==
  /\ out.cmd = "show"
  /\ out.status = 404
  /\ out.exit = 0
  /\ out.from = "cache"
  /\ \A t \in tags : t.id # out.id

(***************************************************************************)
(* C22: write-path failures never reach the cache.  When the call of a     *)
(* new, link or delete command fails (error status, transport error or     *)
(* timeout) the command ends with an error and exit code 1 and the cache   *)
(* is exactly as before; a write command changes the cache, and delete     *)
(* removes its id from it, only after a successful response.               *)
(***************************************************************************)
\* the running new, link or delete command ends in this step
C22_WriteEnds ==
  /\ InFlight
  /\ cli.c.cmd \in { "new", "link", "delete" }
  /\ out'.cmd = cli.c.cmd

C22_FailureSurfaces ==
  C22_WriteEnds /\ out'.status \notin 200..299 =>
    /\ out'.exit = 1
    /\ out'.from = "error"
    /\ "error" \in DOMAIN out'.data
    /\ cache' = cache

C22_WritesAfterSuccess ==
  C22_WriteEnds /\ cache' # cache =>
    /\ out'.status \in 200..299
    /\ last.status = out'.status
    /\ last.rq = cli.rq

C22_WritePath == [][C22_FailureSurfaces /\ C22_WritesAfterSuccess]_vars

\* a delete of a cached tag has failed, with an error status or without a
\* response, and the cache still holds the tag
C22_Witness ==
  /\ out.cmd = "delete"
  /\ out.exit = 1
  /\ out.status \in { 0, 401 }
  /\ out.id \in out.had
  /\ out.id \in CachedIds(cache)

\* a delete of a cached tag has succeeded and the cache no longer holds it
C22_WitnessDeleted ==
  /\ out.cmd = "delete"
  /\ out.status = 200
  /\ out.id \in out.had
  /\ out.id \notin CachedIds(cache)

(***************************************************************************)
(* C23: every call of a CLI to the service completes.  A call that has     *)
(* been made ends, with the response of the service or, when the service   *)
(* never answers, with the failed result of the timeout; and a command     *)
(* calls fetch once for its request, with no retry.                        *)
(***************************************************************************)
C23_OneAttempt == InFlight => cli.fetches = 1

\* a call ends with the response that the service gave to its request, or
\* without one (status 0)
C23_Result ==
  InFlight /\ ~InFlight' =>
    \/ out'.status = last.status /\ last.rq = cli.rq /\ last.status # 0
    \/ out'.status = 0

C23_Completes == InFlight ~> ~InFlight

C23_BoundedWait == []C23_OneAttempt /\ [][C23_Result]_vars /\ C23_Completes

\* the part of C23 that the code keeps: a call of the program with a cache
\* completes, also on a connection that hangs
C23_CachedCompletes == (InFlight /\ cli.program = "pxd-cache") ~> ~InFlight

\* the call of a command of src/cli/pxd.ts is on a connection that hangs
C23_PxdHung == InFlight /\ cli.program = "pxd" /\ cli.net = "hung"

(***************************************************************************)
(* C24: the format of a generated id.  Every id the generator produces has *)
(* 9 characters: the prefix px and 7 characters of the alphabet of the     *)
(* generator; it has no character outside that alphabet.                   *)
(***************************************************************************)
C24_Generated == "picks" \in DOMAIN last.data

C24_Letters == { LowerLetters[i] : i \in 1..Len(LowerLetters) }

C24_Digits == { "2", "3", "4", "5", "6", "7", "8", "9" }

C24_Format(alphabet) ==
  C24_Generated =>
    LET id == last.data.id IN
    /\ Len(id) = IdLength + 2
    /\ SubSeq(id, 1, 2) = << "p", "x" >>
    /\ \A i \in 3..Len(id) : id[i] \in alphabet

\* as stated: the alphabet is {a-z except i, l, o} and {2-9}
C24_IdFormat == C24_Format((C24_Letters \ { "i", "l", "o" }) \cup C24_Digits)

\* C24: as the code has it: the alphabet is {a-z except l, o} and {2-9}, which
\* has 32 symbols; i is one of them
C24_IdFormatWithI ==
  /\ C24_Format((C24_Letters \ { "l", "o" }) \cup C24_Digits)
  /\ Cardinality((C24_Letters \ { "l", "o" }) \cup C24_Digits) = Len(CHARSET)

\* a generated id with the letter i
C24_Witness ==
  /\ C24_Generated
  /\ \E i \in 3..Len(last.data.id) : last.data.id[i] = "i"

(***************************************************************************)
(* C25: the credential a CLI sends.  When the environment variable         *)
(* PXD_KEY is set (to a non-empty string), the X-PXD-Key header of the     *)
(* request is its value, whatever keys the config file has; the keys of    *)
(* the config file, admin_key before agent_key, are used only when the     *)
(* variable is not set.                                                    *)
(***************************************************************************)
C25_FromConfig(config) ==
  IF Truthy(config.admin_key, "") THEN config.admin_key
  ELSE IF Truthy(config.agent_key, "") THEN config.agent_key
  ELSE None

C25_Expected(config) ==
  IF Truthy(config.PXD_KEY, "") THEN config.PXD_KEY ELSE C25_FromConfig(config)

C25_EnvOverrides == InFlight => cli.rq.key = C25_Expected(cli.c.config)

\* the part of C25 that the code keeps: the program with a cache
C25_CachedEnvOverrides ==
  InFlight /\ cli.program = "pxd-cache" => cli.rq.key = C25_Expected(cli.c.config)

\* the program with a cache sends the value of PXD_KEY though the config file
\* has both keys
C25_CachedSendsEnv ==
  /\ InFlight
  /\ cli.program = "pxd-cache"
  /\ cli.c.config = Config(Some(OtherKey), Some(PXD_ADMIN_KEY), Some(PXD_AGENT_KEY))
  /\ cli.rq.key = Some(OtherKey)

(***************************************************************************)
(* C26: a cached tag keeps its links.  When the cache holds tag id with    *)
(* the links the server has for it, and a list, sync or search command     *)
(* then succeeds (nothing changes in the store during it), the entry of    *)
(* id, if the cache still has one, carries the same links as the server.   *)
(***************************************************************************)
\* the running list, sync or search command ends in this step with a
\* successful response
C26_ReadSucceeds ==
  /\ InFlight
  /\ cli.c.cmd \in { "list", "sync", "search" }
  /\ out'.cmd = cli.c.cmd
  /\ out'.status \in 200..299

\* the links of a cached tag, none when it was stored without them
C26_Cached(t) ==
  IF t.links = None THEN {} ELSE { Get(t.links)[i] : i \in 1..Len(Get(t.links)) }

\* the links the server has for tag id
C26_Server(id) == { [ type |-> l.type, url |-> l.url ] : l \in LinksOf(links, id) }

C26_Step ==
  C26_ReadSucceeds =>
    \A id \in IdSpace :
      \A t \in cacheGet(cache, id) :
        /\ SelectTag(tags, id) # {}
        /\ t.links # None
        /\ C26_Cached(t) = C26_Server(id)
        => \A u \in cacheGet(cache', id) : C26_Cached(u) = C26_Server(id)

C26_LinksKept == [][C26_Step /\ (C26_ReadSucceeds => UNCHANGED << tags, links >>)]_vars

\* the state the claim excludes: after a successful list, sync or search the
\* cache holds a tag of the store without the link that the server has for it
C26_LinksLost ==
  /\ out.cmd \in { "list", "sync", "search" }
  /\ out.status = 200
  /\ \E id \in out.had :
       /\ C26_Server(id) # {}
       /\ \E u \in cacheGet(cache, id) : C26_Cached(u) = {}

(***************************************************************************)
(* C27: the cache only copies server state.  The updated_at of every       *)
(* cached tag is a value that the record of that tag on the server has     *)
(* held.  Where no tag is deleted or updated, the record of a tag has held *)
(* one value only, the one it has.                                         *)
(***************************************************************************)
C27_Held(id) == { t.updated_at : t \in SelectTag(tags, id) }

C27_CopiesServer ==
  \A i \in 1..Len(cache.tags) : cache.tags[i].updated_at \in C27_Held(cache.tags[i].id)

\* the record of a tag never changes its updated_at, and no tag is deleted
C27_RecordsStay ==
  \A t \in tags : \E u \in tags' : u.id = t.id /\ u.updated_at = t.updated_at

C27_OnlyCopies == []C27_CopiesServer /\ [][C27_RecordsStay]_vars

\* the premise alone, which holds where nothing deletes or updates
C27_NothingRewritten == [][C27_RecordsStay]_vars

\* what stays true of the cache: the created_at of a cached tag is that of the
\* record on the server
C27_CreatedAtCopied ==
  \A i \in 1..Len(cache.tags) :
    \E t \in SelectTag(tags, cache.tags[i].id) : t.created_at = cache.tags[i].created_at

\* a link command has succeeded and the cached tag has a later updated_at than
\* the record on the server
C27_Fabricated ==
  /\ out.cmd = "link"
  /\ out.status = 201
  /\ \E u \in cacheGet(cache, out.id) :
       \A t \in SelectTag(tags, out.id) : u.updated_at > t.updated_at

====
